---- MODULE Spec2Model ----
(***************************************************************************)
(* Calendar-to-Sheets: the reconciliation pass (code.gs                    *)
(* _syncCalendarToSheetGAS and src/index.js syncCalendarToSheet) and the   *)
(* windowed, checkpointed driver (code.gs syncCalendarToSheetGAS,          *)
(* syncAllCalendarsToSheetsGAS).                                           *)
(*                                                                         *)
(* Values.  A JavaScript value held in a cell or in a projected row is a   *)
(* record [k, s, t]:                                                       *)
(*   k = "str"   a string whose characters are the sequence s              *)
(*   k = "iso"   the string new Date(t).toISOString()                      *)
(*   k = "date"  a Date object for the instant t                           *)
(*   k = "undef" undefined (a position beyond the end of a row)            *)
(* Instants are integers counted in minutes since the epoch.               *)
(***************************************************************************)
EXTENDS Integers, Sequences, FiniteSets, TLC

Str(s) == [k |-> "str", s |-> s, t |-> 0]

Iso(t) == [k |-> "iso", s |-> <<>>, t |-> t]

DateObj(t) == [k |-> "date", s |-> <<>>, t |-> t]

Undef == [k |-> "undef", s |-> <<>>, t |-> 0]

Blank == Str(<<>>)

\* JavaScript truthiness of a value
Truthy(c) == c.k \in {"iso", "date"} \/ (c.k = "str" /\ c.s # <<>>)

\* r[i] of JavaScript, with i counted from 1
At(r, i) == IF i >= 1 /\ i <= Len(r) THEN r[i] ELSE Undef

\* a === b : strings by content, Date objects by identity (a Date read from
\* the sheet is never the same object as a projected value)
StrictEq(a, b) == a.k = b.k /\ a.k # "date" /\ a = b

\* new Date(c): valid for an ISO string or a Date, Invalid Date otherwise
DateValid(c) == c.k \in {"iso", "date"}

DateTime(c) == c.t

Range(f) == {f[i] : i \in DOMAIN f}

Max(S) == CHOOSE x \in S : \A y \in S : y <= x

\* toDelete.sort((a,b) => b - a)
RECURSIVE SortDesc(_)
SortDesc(S) == IF S = {} THEN <<>> ELSE <<Max(S)>> \o SortDesc(S \ {Max(S)})

(***************************************************************************)
(* The tabular store: a sheet is the sequence of its rows, row 1 first.    *)
(* The program reaches it through getDataRange().getValues(), appendRow,   *)
(* getRange(row,1,n,m).setValues, insertRowBefore, deleteRow, deleteRows.  *)
(* A store call is a record [op, row, n, values].                          *)
(***************************************************************************)
AppendRowCall(r) == [op |-> "appendRow", row |-> 0, n |-> 1, values |-> <<r>>]

SetValuesCall(rowIndex, rows) ==
  [op |-> "setValues", row |-> rowIndex, n |-> Len(rows), values |-> rows]

DeleteRowCall(rowIndex) == [op |-> "deleteRow", row |-> rowIndex, n |-> 1, values |-> <<>>]

DeleteRowsCall(rowIndex, howMany) ==
  [op |-> "deleteRows", row |-> rowIndex, n |-> howMany, values |-> <<>>]

InsertRowBeforeCall(rowIndex) ==
  [op |-> "insertRowBefore", row |-> rowIndex, n |-> 1, values |-> <<>>]

\* setValues on one row: the first Len(vals) cells are overwritten, the cells
\* beyond them are left as they are
WriteCells(old, vals) ==
  [i \in 1..(IF Len(old) > Len(vals) THEN Len(old) ELSE Len(vals)) |->
     IF i <= Len(vals) THEN vals[i] ELSE old[i]]

SetValues(sheet, rowIndex, rows) ==
  LET last == rowIndex + Len(rows) - 1
      len  == IF last > Len(sheet) THEN last ELSE Len(sheet)
  IN [i \in 1..len |->
        IF i >= rowIndex /\ i <= last
          THEN WriteCells(IF i <= Len(sheet) THEN sheet[i] ELSE <<>>, rows[i - rowIndex + 1])
          ELSE IF i <= Len(sheet) THEN sheet[i] ELSE <<>>]

DeleteRows(sheet, rowIndex, howMany) ==
  [i \in 1..(Len(sheet) - Cardinality({j \in 1..Len(sheet) : j >= rowIndex /\ j < rowIndex + howMany})) |->
     IF i < rowIndex THEN sheet[i] ELSE sheet[i + howMany]]

InsertRowBefore(sheet, rowIndex) ==
  [i \in 1..(Len(sheet) + 1) |->
     IF i < rowIndex THEN sheet[i] ELSE IF i = rowIndex THEN <<>> ELSE sheet[i - 1]]

ApplyCall(sheet, c) ==
  CASE c.op = "appendRow"       -> Append(sheet, c.values[1])
    [] c.op = "setValues"       -> SetValues(sheet, c.row, c.values)
    [] c.op = "deleteRow"       -> IF c.row >= 1 /\ c.row <= Len(sheet)
                                     THEN DeleteRows(sheet, c.row, 1) ELSE sheet
    [] c.op = "deleteRows"      -> DeleteRows(sheet, c.row, c.n)
    [] c.op = "insertRowBefore" -> InsertRowBefore(sheet, c.row)

RECURSIVE ApplyCalls(_, _)
ApplyCalls(sheet, cs) ==
  IF cs = <<>> THEN sheet ELSE ApplyCalls(ApplyCall(sheet, Head(cs)), Tail(cs))

(***************************************************************************)
(* ValueSanitizer and RecordProjector.                                     *)
(* Characters are one-character strings; "TAB" stands for a control        *)
(* character of the range 0x00-0x20 other than the space.                  *)
(***************************************************************************)
ControlChars == {" ", "TAB"}

FormulaChars == {"=", "+", "-", "@"}

\* the test /^[=+\-@]/, which looks at the first character only
MatchesFormula_Anchored(s) == s # <<>> /\ Head(s) \in FormulaChars

\* /^[\x00-\x20]*[=+\-@]/.test(s)
RECURSIVE MatchesFormula(_)
MatchesFormula(s) ==
  IF s = <<>> THEN FALSE
  ELSE IF Head(s) \in FormulaChars THEN TRUE
  ELSE IF Head(s) \in ControlChars THEN MatchesFormula(Tail(s))
  ELSE FALSE

sanitizeValue(val) ==
  IF val.k = "str" /\ MatchesFormula(val.s) THEN Str(<<"'">> \o val.s) ELSE val

\* x || ''
OrEmpty(x) == IF Truthy(x) THEN x ELSE Blank

\* emails.join(',')
RECURSIVE Join(_)
Join(emails) ==
  IF emails = <<>> THEN <<>>
  ELSE IF Len(emails) = 1 THEN emails[1]
  ELSE emails[1] \o <<",">> \o Join(Tail(emails))

\* eventToRowGAS that copies title, description and location as they are
eventToRowGAS_Raw(event) ==
  << event.id,
     event.title,
     Iso(event.start),
     Iso(event.end),
     OrEmpty(event.description),
     OrEmpty(event.location),
     Str(Join(event.attendees)) >>

\* An event is [id, title, start, end, description, location, attendees]:
\* id, title, description, location are values, start and end instants,
\* attendees a sequence of e-mail strings.
eventToRowGAS(event) ==
  << event.id,
     sanitizeValue(event.title),
     Iso(event.start),
     Iso(event.end),
     sanitizeValue(OrEmpty(event.description)),
     sanitizeValue(OrEmpty(event.location)),
     Str(Join(event.attendees)) >>

eventToRow(event) ==
  << event.id,
     sanitizeValue(event.title),
     Iso(event.start),
     Iso(event.end),
     sanitizeValue(OrEmpty(event.description)),
     sanitizeValue(OrEmpty(event.location)),
     Str(Join(event.attendees)) >>

\* MapKeys of a list that keeps every occurrence of a key
MapKeys_Repeated(rows) == [i \in 1..Len(rows) |-> rows[i][1]]

\* new Map(desired.map(r => [r[0], r])): keys in order of first occurrence,
\* each key bound to the last row that carries it
RECURSIVE MapKeys(_)
MapKeys(rows) ==
  IF rows = <<>> THEN <<>>
  ELSE LET init == MapKeys(SubSeq(rows, 1, Len(rows) - 1))
           key  == rows[Len(rows)][1]
       IN IF key \in Range(init) THEN init ELSE Append(init, key)

MapGet(rows, key) == rows[Max({i \in 1..Len(rows) : rows[i][1] = key})]

(***************************************************************************)
(* RowIndex, RowComparator, HeaderEnsurer (src/index.js)                   *)
(***************************************************************************)
\* rows with an id: the positions i of body (counted from 1) that rowsToMap
\* does not skip
Indexed(body) == {i \in 1..Len(body) : Truthy(At(body[i], 1))}

\* rowsToMap without the test (!r || !r[0]): every row gets an entry
rowsToMap_All(body) ==
  [id \in {At(body[i], 1) : i \in 1..Len(body)} |->
     LET i == Max({j \in 1..Len(body) : At(body[j], 1) = id})
     IN [rowIndex |-> i + 1, values |-> body[i]]]

\* rowsToMap: id -> {rowIndex: i + 2, values}, with i counted from 0; a later
\* row with the same id replaces the earlier entry
rowsToMap(body) ==
  [id \in {body[i][1] : i \in Indexed(body)} |->
     LET i == Max({j \in Indexed(body) : body[j][1] = id})
     IN [rowIndex |-> i + 1, values |-> body[i]]]

CellsEqual(valA, valB) ==
  \/ StrictEq(valA, valB)
  \/ /\ valA.k \in {"str", "iso"}
     /\ valB.k = "date"
     /\ DateValid(valA)
     /\ DateTime(valA) = DateTime(valB)
  \/ /\ valA.k = "str"
     /\ valA.s # <<>>
     /\ Head(valA.s) = "'"
     /\ StrictEq(Str(Tail(valA.s)), valB)

\* rowsEqual that also wants the two rows to have the same number of cells
rowsEqual_SameLength(a, b) ==
  Len(a) = Len(b) /\ \A i \in 1..Len(a) : CellsEqual(a[i], At(b, i))

rowsEqual(a, b) == \A i \in 1..Len(a) : CellsEqual(a[i], At(b, i))

expectedHeader ==
  << Str(<<"id">>), Str(<<"title">>), Str(<<"start">>), Str(<<"end">>),
     Str(<<"description">>), Str(<<"location">>), Str(<<"attendees">>) >>

isValidHeader(firstRow) ==
  /\ Len(firstRow) >= Len(expectedHeader)
  /\ StrictEq(firstRow[1], Str(<<"id">>))
  /\ StrictEq(firstRow[2], Str(<<"title">>))
  /\ StrictEq(firstRow[3], Str(<<"start">>))
  /\ StrictEq(firstRow[4], Str(<<"end">>))

\* ensureHeader that writes the header over row 1
ensureHeader_Overwrite(sheet) ==
  IF Len(sheet) = 0 \/ ~isValidHeader(sheet[1])
    THEN << SetValuesCall(1, <<expectedHeader>>) >>
    ELSE <<>>

\* the store calls ensureHeader issues on a sheet
ensureHeader(sheet) ==
  IF Len(sheet) = 0
    THEN << SetValuesCall(1, <<expectedHeader>>) >>
    ELSE IF ~isValidHeader(sheet[1])
      THEN << InsertRowBeforeCall(1), SetValuesCall(1, <<expectedHeader>>) >>
      ELSE <<>>

(***************************************************************************)
(* ReconciliationEngine.  A pass reads the sheet once (after the header    *)
(* step), so the store calls it issues are a function of that reading, of  *)
(* the fetched events and of the window.                                   *)
(***************************************************************************)
\* InWindow with the two bounds of the window left out
InWindow_Exclusive(c, start, end) == DateValid(c) /\ DateTime(c) > start /\ DateTime(c) < end

\* eventStart >= start && eventStart <= end, false for an Invalid Date
InWindow(c, start, end) == DateValid(c) /\ DateTime(c) >= start /\ DateTime(c) <= end

\* UpsertCallGAS without the comparison: an existing row is always rewritten
UpsertCallGAS_NoCompare(existingMap, row) ==
  IF row[1] \in DOMAIN existingMap
    THEN << SetValuesCall(existingMap[row[1]].rowIndex, <<row>>) >>
    ELSE << AppendRowCall(row) >>

\* UpsertCallGAS writing the whole width of the existing row: the projected
\* cells, then blanks
UpsertCallGAS_WholeRow(existingMap, row) ==
  IF row[1] \in DOMAIN existingMap
    THEN LET ex == existingMap[row[1]]
         IN IF \E i \in 1..Len(row) : ~StrictEq(At(ex.values, i), row[i])
              THEN << SetValuesCall(ex.rowIndex,
                        << [j \in 1..(IF Len(ex.values) > Len(row) THEN Len(ex.values) ELSE Len(row)) |->
                              IF j <= Len(row) THEN row[j] ELSE Blank] >>) >>
              ELSE <<>>
    ELSE << AppendRowCall(row) >>

\* UpsertCallGAS that appends the new version of a changed row
UpsertCallGAS_Append(existingMap, row) ==
  IF row[1] \in DOMAIN existingMap
    THEN LET ex == existingMap[row[1]]
         IN IF \E i \in 1..Len(row) : ~StrictEq(At(ex.values, i), row[i])
              THEN << AppendRowCall(row) >>
              ELSE <<>>
    ELSE << AppendRowCall(row) >>

\* for (const [id, row] of desiredMap.entries()): the update or the insert
\* of one desired row (code.gs 188-204)
UpsertCallGAS(existingMap, row) ==
  IF row[1] \in DOMAIN existingMap
    THEN LET ex == existingMap[row[1]]
         IN IF \E i \in 1..Len(row) : ~StrictEq(At(ex.values, i), row[i])
              THEN << SetValuesCall(ex.rowIndex, <<row>>) >>
              ELSE <<>>
    ELSE << AppendRowCall(row) >>

RECURSIVE UpsertCallsGAS(_, _, _)
UpsertCallsGAS(existingMap, desired, keys) ==
  IF keys = <<>> THEN <<>>
  ELSE UpsertCallGAS(existingMap, MapGet(desired, Head(keys)))
         \o UpsertCallsGAS(existingMap, desired, Tail(keys))

\* ToDeleteGAS without the window test: every row absent from the fetch goes
ToDeleteGAS_NoWindow(existingMap, desiredIds, start, end) ==
  {existingMap[id].rowIndex : id \in
     {x \in DOMAIN existingMap :
        /\ x \notin desiredIds
        /\ Truthy(At(existingMap[x].values, 3))
        /\ DateValid(At(existingMap[x].values, 3))}}

\* code.gs 209-218: the row positions pushed to toDelete
ToDeleteGAS(existingMap, desiredIds, start, end) ==
  {existingMap[id].rowIndex : id \in
     {x \in DOMAIN existingMap :
        /\ x \notin desiredIds
        /\ Truthy(At(existingMap[x].values, 3))
        /\ InWindow(At(existingMap[x].values, 3), start, end)}}

\* DeleteCalls in the order lowest row position first
DeleteCalls_Ascending(toDelete) ==
  LET order == SortDesc(toDelete)
  IN [i \in 1..Len(order) |-> DeleteRowCall(order[Len(order) + 1 - i])]

\* toDelete.sort((a,b) => b - a).forEach(r => sheet.deleteRow(r))
DeleteCalls(toDelete) ==
  LET order == SortDesc(toDelete)
  IN [i \in 1..Len(order) |-> DeleteRowCall(order[i])]

headerRow ==
  << Str(<<"Event ID">>), Str(<<"Title">>), Str(<<"Start">>), Str(<<"End">>),
     Str(<<"Duration (hours)">>), Str(<<"All Day">>), Str(<<"Created">>),
     Str(<<"Last Updated">>), Str(<<"Location">>), Str(<<"Description">>),
     Str(<<"Guests">>) >>

\* code.gs 152-174.  ensureHeaderDefined is typeof ensureHeader === 'function'
\* in the script project the wrapper is deployed in.
HeaderCallsGAS(sheet, ensureHeaderDefined) ==
  LET first == IF ensureHeaderDefined THEN ensureHeader(sheet) ELSE <<>>
      data  == ApplyCalls(sheet, first)
  IN IF Len(data) = 0 \/ (Len(data) = 1 /\ \A i \in 1..Len(data[1]) : data[1][i] = Blank)
       THEN first \o << SetValuesCall(1, <<headerRow>>) >>
       ELSE first

\* code.gs 175-220 on the data read at line 155/173
BodyCallsGAS(data, events, start, end) ==
  LET desired     == [i \in 1..Len(events) |-> eventToRowGAS(events[i])]
      body        == Tail(data)
      existingMap == rowsToMap(body)
  IN UpsertCallsGAS(existingMap, desired, MapKeys(desired))
       \o DeleteCalls(ToDeleteGAS(existingMap, Range(MapKeys(desired)), start, end))

\* _syncCalendarToSheetGAS (code.gs 137-222), events = calendar.getEvents(start, end)
_syncCalendarToSheetGAS(sheet, events, start, end, ensureHeaderDefined) ==
  LET hdr == HeaderCallsGAS(sheet, ensureHeaderDefined)
  IN hdr \o BodyCallsGAS(ApplyCalls(sheet, hdr), events, start, end)

\* src/index.js syncCalendarToSheet ------------------------------------------
UpdateCalls(existingMap, desired, keys) ==
  LET upd(k) == LET row == MapGet(desired, keys[k])
                IN /\ row[1] \in DOMAIN existingMap
                   /\ ~rowsEqual(row, existingMap[row[1]].values)
      F[k \in 0..Len(keys)] ==
        IF k = 0 THEN <<>>
        ELSE IF upd(k)
          THEN Append(F[k - 1],
                      SetValuesCall(existingMap[keys[k]].rowIndex, <<MapGet(desired, keys[k])>>))
          ELSE F[k - 1]
  IN F[Len(keys)]

rowsToInsert(existingMap, desired, keys) ==
  LET F[k \in 0..Len(keys)] ==
        IF k = 0 THEN <<>>
        ELSE IF keys[k] \notin DOMAIN existingMap
          THEN Append(F[k - 1], MapGet(desired, keys[k]))
          ELSE F[k - 1]
  IN F[Len(keys)]

\* src/index.js 138-159
ToDelete(existingMap, desiredIds, start, end) ==
  {existingMap[id].rowIndex : id \in
     {x \in DOMAIN existingMap :
        /\ x \notin desiredIds
        /\ Truthy(At(existingMap[x].values, 3))
        /\ Truthy(At(existingMap[x].values, 4))
        /\ InWindow(At(existingMap[x].values, 3), start, end)}}

BodyCalls(data, events, start, end) ==
  LET desired     == [i \in 1..Len(events) |-> eventToRow(events[i])]
      keys        == MapKeys(desired)
      existingMap == rowsToMap(Tail(data))
      inserts     == rowsToInsert(existingMap, desired, keys)
  IN UpdateCalls(existingMap, desired, keys)
       \o (IF Len(inserts) > 0 THEN << SetValuesCall(Len(data) + 1, inserts) >> ELSE <<>>)
       \o DeleteCalls(ToDelete(existingMap, Range(keys), start, end))

syncCalendarToSheet(sheet, events, start, end) ==
  LET hdr == ensureHeader(sheet)
  IN hdr \o BodyCalls(ApplyCalls(sheet, hdr), events, start, end)

(***************************************************************************)
(* State of a reconciliation scenario.                                     *)
(*   sheet0  the sheet before the first reconciliation pass                *)
(*   sheet   the sheet now                                                 *)
(*   args    the arguments of the last pass [impl, events, start, end, eh] *)
(*   before  the sheet when the last pass began                            *)
(*   calls   the store calls the last pass issued, in order                *)
(*   passes  the number of passes made                                     *)
(***************************************************************************)
VARIABLES sheet0, sheet, args, before, calls, passes

(***************************************************************************)
(* State of the mail archive (gmail-to-drive-by-labels): a record          *)
(*   threads   for each Gmail thread, the set of label names it carries    *)
(*   labels    the user labels that exist                                  *)
(*   docs      for each document, the e-mails written into it, newest      *)
(*             first                                                       *)
(*   folders   for each Drive folder, the files in it [name, content]      *)
(*   rebuilds  for each config, the calls and the clearings of the rebuild *)
(*             in progress or last finished                                *)
(* The calendar scripts never touch it.                                    *)
(***************************************************************************)
VARIABLES mail

NoMail == <<>>

rvars == <<sheet0, sheet, args, before, calls, passes, mail>>

(***************************************************************************)
(* State of the driver.                                                    *)
(*   cfgs     SYNC_CONFIGS: a sequence of [calendarId, sheet]              *)
(*   props    PropertiesService.getUserProperties(): key -> stored value   *)
(*   sheets   the sheet of every spreadsheetId/sheetName pair              *)
(*   now      the clock, in minutes since the epoch                        *)
(*   run      the invocation in progress: entry point, position (pc),      *)
(*            index i of the config being synced, arguments and locals     *)
(*   outcome  for each config of the invocation: status, the property      *)
(*            value read at its start, whether the range step cleared the  *)
(*            checkpoint, the upper bound of its last completed window     *)
(*   ncalls   the number of invocations made                               *)
(***************************************************************************)
VARIABLES cfgs, props, sheets, now, run, outcome, ncalls

dvars == <<cfgs, props, sheets, now, run, outcome, ncalls, mail>>

vars == <<sheet0, sheet, args, before, calls, passes,
          cfgs, props, sheets, now, run, outcome, ncalls, mail>>

\* ---- bounds of the reconciliation scenarios ----
MaxRows == 2

MaxForeign == 2

MaxTime == 1

Times == 0..MaxTime

Garbage == Str(<<"n/a">>)

\* the start and end cells of a stored row: well formed, at every instant
WellFormed == {<<Iso(t), Iso(t + 1)>> : t \in Times}

\* a missing or unparsable start or end
Malformed == {<<Blank, Iso(1)>>, <<Garbage, Iso(1)>>, <<Iso(1), Blank>>, <<Iso(1), Garbage>>}

Foreign(id, n) == [j \in 1..n |-> Str(<<"note", id>>)]

StoredRow(id, shape, n) ==
  <<Str(<<id>>), Str(<<"A">>), shape[1], shape[2], Blank, Blank, Blank>> \o Foreign(id, n)

\* the rows a sheet may hold before the first pass, each with n foreign cells:
\* rows of e1 are well formed, rows of e2 may be malformed
StoredRows(n) ==
  {StoredRow("e1", shape, n) : shape \in WellFormed}
    \cup {StoredRow("e2", shape, n) : shape \in WellFormed \cup Malformed}

Bodies(n) == UNION {[1..len -> StoredRows(n)] : len \in 0..MaxRows}

InitSheets ==
  {<<>>} \cup UNION {{<<expectedHeader>> \o b : b \in Bodies(n)} : n \in {0, MaxForeign}}

EventAt(id, title, start, end) ==
  [id |-> Str(<<id>>), title |-> Str(title), start |-> start, end |-> end,
   description |-> Undef, location |-> Blank, attendees |-> <<>>]

Event(id, title) == EventAt(id, title, 1, 2)

\* what the source provider may return for a window
EventLists ==
  {e1 \o e2 : e1 \in {<<>>, <<Event("e1", <<"A">>)>>, <<Event("e1", <<"=", "A">>)>>},
              e2 \in {<<>>, <<Event("e2", <<"A">>)>>}}

Windows == {w \in Times \X Times : w[1] <= w[2]}

NoArgs == [impl |-> "none", events |-> <<>>, start |-> 0, end |-> 0, eh |-> FALSE]

InitReconcile ==
  /\ sheet0 \in InitSheets
  /\ sheet = sheet0
  /\ args = NoArgs
  /\ before = <<>>
  /\ calls = <<>>
  /\ passes = 0
  /\ cfgs = <<>>
  /\ props = <<>>
  /\ sheets = <<>>
  /\ now = 0
  /\ run = <<>>
  /\ outcome = <<>>
  /\ ncalls = 0
  /\ mail = NoMail

\* one pass of _syncCalendarToSheetGAS on the sheet
PassGAS(a) ==
  LET cs == _syncCalendarToSheetGAS(sheet, a.events, a.start, a.end, a.eh)
  IN /\ args' = a
     /\ before' = sheet
     /\ calls' = cs
     /\ sheet' = ApplyCalls(sheet, cs)
     /\ passes' = passes + 1
     /\ UNCHANGED sheet0
     /\ UNCHANGED dvars

\* one pass of syncCalendarToSheet on the sheet
PassLib(a) ==
  LET cs == syncCalendarToSheet(sheet, a.events, a.start, a.end)
  IN /\ args' = a
     /\ before' = sheet
     /\ calls' = cs
     /\ sheet' = ApplyCalls(sheet, cs)
     /\ passes' = passes + 1
     /\ UNCHANGED sheet0
     /\ UNCHANGED dvars

ReconcileGAS ==
  /\ passes = 0
  /\ \E ev \in EventLists, w \in Windows, eh \in BOOLEAN :
       PassGAS([impl |-> "gas", events |-> ev, start |-> w[1], end |-> w[2], eh |-> eh])

ReconcileLib ==
  /\ passes = 0
  /\ \E ev \in EventLists, w \in Windows :
       PassLib([impl |-> "lib", events |-> ev, start |-> w[1], end |-> w[2], eh |-> FALSE])

\* the same pass a second time: same desired records, same window
ReconcileAgain ==
  /\ passes = 1
  /\ IF args.impl = "gas" THEN PassGAS(args) ELSE PassLib(args)

NextReconcile == ReconcileGAS \/ ReconcileLib \/ ReconcileAgain

SpecReconcile == InitReconcile /\ [][NextReconcile]_vars

\* what the last pass read with getDataRange().getValues(), after its header step
Data ==
  ApplyCalls(before, IF args.impl = "gas" THEN HeaderCallsGAS(before, args.eh)
                     ELSE ensureHeader(before))

(***************************************************************************)
(* Claims about one reconciliation pass (SpecReconcile)                    *)
(***************************************************************************)
\* the ids of the indexed rows of a sheet occur once each
NoDuplicateIds(sh) ==
  \A i, j \in 2..Len(sh) :
    (Truthy(At(sh[i], 1)) /\ i # j) => At(sh[i], 1) # At(sh[j], 1)

\* C1 as stated: for any store state and any window, a second reconcile run
\* with the same desired records and the same window issues no insert, no
\* update and no delete, and leaves the store as the first run left it.
C1_AnyStore == passes = 2 => (calls = <<>> /\ sheet = before)

\* C1 amended: the same, for a store in which no id occurs in more than one row
\* before the first run.
C1_Idempotent ==
  (passes = 2 /\ NoDuplicateIds(sheet0)) => (calls = <<>> /\ sheet = before)

\* a second run after a first run that changed a store without duplicate ids
C1_Witness ==
  /\ passes = 2
  /\ NoDuplicateIds(sheet0)
  /\ Len(sheet0) = 1 + MaxRows
  /\ sheet # sheet0

\* the rows (positions in Data) the last pass overwrote in place
Updated ==
  {c.row : c \in {x \in Range(calls) : x.op = "setValues" /\ x.row >= 2 /\ x.row <= Len(Data)}}

\* the rows (positions in Data) the last pass deleted
Deleted == {c.row : c \in {x \in Range(calls) : x.op = "deleteRow"}}

\* where a row of Data that was not deleted stands once the pass is over
FinalPos(r) == r - Cardinality({d \in Deleted : d < r})

SchemaWidth == Len(expectedHeader)

\* C2: a row updated in place keeps every cell beyond the 7 schema columns,
\* for any number of trailing foreign columns (including none).
C2_ForeignKept ==
  passes >= 1 =>
    \A r \in Updated :
      LET old == Data[r]
          new == sheet[FinalPos(r)]
      IN /\ r \notin Deleted
         /\ Len(new) = (IF Len(old) > SchemaWidth THEN Len(old) ELSE SchemaWidth)
         /\ \A j \in 1..Len(old) : j > SchemaWidth => new[j] = old[j]
         /\ \A j \in 1..SchemaWidth : new[j] # old[j] => new[j] = MapGet(
              [i \in 1..Len(args.events) |-> eventToRowGAS(args.events[i])], old[1])[j]

\* an update of a row that carries foreign cells
C2_Witness ==
  /\ passes = 1
  /\ \E r \in Updated : Len(Data[r]) = SchemaWidth + MaxForeign /\ MaxForeign > 0

\* the start cell of a row parses to an instant strictly outside the window
OutsideWindow(row) ==
  /\ Truthy(At(row, 3))
  /\ DateValid(At(row, 3))
  /\ (DateTime(At(row, 3)) < args.start \/ DateTime(At(row, 3)) > args.end)

DesiredIds == {args.events[i].id : i \in 1..Len(args.events)}

\* C3: a pass scoped to [start, end] never deletes a row whose start lies
\* strictly outside the window: the row is still there after the pass, and
\* unchanged when its id is absent from the desired set.
C3_OutsideKept ==
  passes >= 1 =>
    \A r \in 2..Len(Data) :
      OutsideWindow(Data[r]) =>
        /\ r \notin Deleted
        /\ FinalPos(r) <= Len(sheet)
        /\ At(Data[r], 1) \notin DesiredIds => sheet[FinalPos(r)] = Data[r]

\* a pass that deletes a row and keeps a row outside the window whose id is
\* absent from the desired set
C3_Witness ==
  /\ passes = 1
  /\ Deleted # {}
  /\ \E r \in 2..Len(Data) :
       /\ OutsideWindow(Data[r])
       /\ Truthy(At(Data[r], 1))
       /\ At(Data[r], 1) \notin DesiredIds

\* a cell that is there and parses to an instant
ValidInstant(c) == Truthy(c) /\ DateValid(c)

\* C4: an indexed row whose start or end cell is missing or unparsable is
\* never deleted, whatever the window and the desired set.
C4_MalformedKept ==
  passes >= 1 =>
    \A r \in 2..Len(Data) :
      (Truthy(At(Data[r], 1)) /\ ~(ValidInstant(At(Data[r], 3)) /\ ValidInstant(At(Data[r], 4))))
        => r \notin Deleted

(***************************************************************************)
(* CheckpointStore and WindowedSyncDriver (code.gs)                        *)
(***************************************************************************)
CHECKPOINT_PREFIX == "calendar_to_sheets_last_sync_"

\* 1 year, in minutes
DEFAULT_SYNC_WINDOW_MS == 365 * 24 * 60

\* 10 minutes
TAIL_MERGE_WINDOW_MS == 10

maxIterations == 100

\* a stored property: k = "none" (getProperty returns null), "num" (the
\* decimal digits of n), "numtext" (the digits of n followed by other
\* characters), "text" (no leading digits), "huge" (the digits of a number
\* beyond the range of Date)
NoProp == [k |-> "none", n |-> 0]

NumProp(n) == [k |-> "num", n |-> n]

\* an optional ISO argument of an entry point
NoIso == [set |-> FALSE, t |-> 0]

SomeIso(t) == [set |-> TRUE, t |-> t]

getCheckpointKey(cfg) ==
  <<CHECKPOINT_PREFIX, IF cfg.calendarId # "" THEN cfg.calendarId ELSE "default">>

\* isNaN(parseInt(stored))
ParseIntIsNaN(stored) == stored.k = "text"

\* isNaN(new Date(parseInt(stored)).getTime())
IsInvalidDate(stored) == stored.k = "huge"

getLastSyncTime(p, cfg) ==
  LET stored == p[getCheckpointKey(cfg)]
  IN IF stored.k # "none"
       THEN IF ParseIntIsNaN(stored) THEN 0
            ELSE IF IsInvalidDate(stored) THEN 0
            ELSE stored.n
       ELSE 0

\* saveLastSyncTime that writes nothing
saveLastSyncTime_Skip(p, cfg, timestamp) == p

\* saveLastSyncTime that writes under the key of the default calendar
saveLastSyncTime_DefaultKey(p, cfg, timestamp) ==
  [p EXCEPT ![<<CHECKPOINT_PREFIX, "default">>] = NumProp(timestamp)]

\* saveLastSyncTime that stores the minute before the timestamp
saveLastSyncTime_Early(p, cfg, timestamp) ==
  [p EXCEPT ![getCheckpointKey(cfg)] = NumProp(timestamp - 1)]

saveLastSyncTime(p, cfg, timestamp) ==
  [p EXCEPT ![getCheckpointKey(cfg)] = NumProp(timestamp)]

\* clearCheckpoint that leaves the property in place
clearCheckpoint_Keep(p, cfg) == p

clearCheckpoint(p, cfg) == [p EXCEPT ![getCheckpointKey(cfg)] = NoProp]

\* code.gs 225-245: the range of syncCalendarToSheetGAS
RangeOne(p, cfg, startIso, endIso, nowT) ==
  LET checkpoint == getLastSyncTime(p, cfg)
      start0     == IF startIso.set THEN startIso.t ELSE checkpoint
      end        == IF endIso.set THEN endIso.t ELSE nowT
      reset      == start0 > end
      p1         == IF reset THEN clearCheckpoint(p, cfg) ELSE p
      start1     == IF reset THEN getLastSyncTime(p1, cfg) ELSE start0
      start      == IF startIso.set /\ (nowT - start1) <= DEFAULT_SYNC_WINDOW_MS
                      THEN start1 - DEFAULT_SYNC_WINDOW_MS ELSE start1
  IN [props |-> p1, start |-> start, end |-> end, reset |-> reset]

\* RangeAll that never rewinds a start read from the checkpoint
RangeAll_NoRewind(p, cfg, startIso, endIso, nowT) ==
  RangeOne(p, cfg, startIso, endIso, nowT)

\* code.gs 279-299: the range of one config of syncAllCalendarsToSheetsGAS
RangeAll(p, cfg, startIso, endIso, nowT) ==
  LET checkpoint == getLastSyncTime(p, cfg)
      start0     == IF startIso.set THEN startIso.t ELSE checkpoint
      end        == IF endIso.set THEN endIso.t ELSE nowT
      reset      == start0 > end
      p1         == IF reset THEN clearCheckpoint(p, cfg) ELSE p
      start1     == IF reset THEN getLastSyncTime(p1, cfg) ELSE start0
      start      == IF (nowT - start1) <= DEFAULT_SYNC_WINDOW_MS
                      THEN start1 - DEFAULT_SYNC_WINDOW_MS ELSE start1
  IN [props |-> p1, start |-> start, end |-> end, reset |-> reset]

\* code.gs 251-255 and 303-307
EffectiveEnd(currentStart, end) ==
  LET chunkEnd == currentStart + DEFAULT_SYNC_WINDOW_MS
  IN IF chunkEnd < end /\ (end - chunkEnd) <= TAIL_MERGE_WINDOW_MS
       THEN end
       ELSE IF chunkEnd < end THEN chunkEnd ELSE end

\* the loop condition without the safety limit
LoopContinues_NoCap(r) == r.currentStart < r.end

\* while (currentStart < end && iterationCount < maxIterations)
LoopContinues(r) == r.currentStart < r.end /\ r.iterationCount < maxIterations

\* calendar.getEvents(start, end) of the test calendar: the events that start
\* in [start, end]
getEvents(events, start, end) ==
  SelectSeq(events, LAMBDA e : e.start >= start /\ e.start <= end)

\* typeof ensureHeader === 'function' where code.gs is deployed alone
EnsureHeaderDeployed == FALSE

\* ---- the scenarios of the driver ----
\* the number of invocations of an entry point in one behaviour
MaxCalls == 2

\* the provider and the store fail only in the first MaxFailAt windows of a
\* configuration's loop
MaxFailAt == 2

W == DEFAULT_SYNC_WINDOW_MS

Cfg(calendarId, sheetId) == [calendarId |-> calendarId, sheet |-> sheetId]

\* two calendars into two sheets; one calendar into two sheets
ConfigLists ==
  { <<Cfg("calA", "s1"), Cfg("calB", "s2")>>,
    <<Cfg("calA", "s1"), Cfg("calA", "s2")>> }

CheckpointKeys == {getCheckpointKey(Cfg(c, "s1")) : c \in {"", "calA", "calB"}}

SheetIds == {"s1", "s2"}

\* the events of each calendar
CalendarEvents(calendarId) ==
  IF calendarId = "calB"
    THEN << EventAt("e2", <<"A">>, 3 * W + 2, 3 * W + 62) >>
    ELSE << EventAt("e1", <<"A">>, W + 50, W + 110) >>

\* s1 holds a row of an event that is no longer in any calendar
InitialSheet(sheetId) ==
  IF sheetId = "s1"
    THEN << expectedHeader,
            <<Str(<<"e9">>), Str(<<"A">>), Iso(W + 60), Iso(W + 120), Blank, Blank, Blank>> >>
    ELSE << expectedHeader >>

\* the checkpoint a calendar starts with: none, an old one, one in the future
InitialProps == {NoProp, NumProp(W + 7), NumProp(5 * W)}

\* the clock at an invocation
NowValues == {3 * W + 5, 4 * W + 30}

\* startIso: none, recent, in the future, more than 100 windows back
StartIsoValues == {NoIso, SomeIso(3 * W), SomeIso(6 * W), SomeIso(0 - 98 * W)}

EndIsoValues == {NoIso, SomeIso(2 * W + 3)}

NoRun ==
  [kind |-> "none", pc |-> "idle", i |-> 0, startIso |-> NoIso, endIso |-> NoIso,
   end |-> 0, currentStart |-> 0, iterationCount |-> 0, effectiveEnd |-> 0,
   issued |-> 0, applied |-> 0, afterOk |-> FALSE, prev |-> <<>>]

\* how the previous invocation left each config
PrevStatus == [j \in DOMAIN outcome |-> outcome[j].status]

\* what is recorded of config j in an invocation: the properties before its
\* range was determined, the stored value it read, its range, whether the
\* range was reset, and the upper bound of its last completed window
Pending ==
  [status |-> "pending", before |-> <<>>, read |-> NoProp, start |-> 0, end |-> 0,
   reset |-> FALSE, lastEnd |-> NoIso]

Running(p, cfg, r) ==
  [status |-> "running", before |-> p, read |-> p[getCheckpointKey(cfg)],
   start |-> r.start, end |-> r.end, reset |-> r.reset, lastEnd |-> NoIso]

Init ==
  /\ cfgs \in ConfigLists
  /\ \E v \in InitialProps : props = [key \in CheckpointKeys |-> v]
  /\ sheets = [id \in SheetIds |-> InitialSheet(id)]
  /\ now = 0
  /\ run = NoRun
  /\ outcome = [j \in 1..Len(cfgs) |-> Pending]
  /\ ncalls = 0
  /\ sheet0 = <<>>
  /\ sheet = <<>>
  /\ args = NoArgs
  /\ before = <<>>
  /\ calls = <<>>
  /\ passes = 0
  /\ mail = NoMail

Returned == run.pc \in {"idle", "done", "threw"}

\* the previous invocation was a syncCalendarToSheetGAS call without endIso
\* that returned normally
ReturnedOkOne == run.kind = "syncOne" /\ run.pc = "done" /\ ~run.endIso.set

\* syncCalendarToSheetGAS(startIso, endIso), up to the loop (code.gs 225-247),
\* with the arguments and the clock drawn from starts, ends and nows
SyncOneCall(starts, ends, nows) ==
  /\ Returned
  /\ ncalls < MaxCalls
  /\ \E startIso \in starts, endIso \in ends, t \in nows :
       /\ t >= now
       /\ LET cfg == cfgs[1]
              r   == RangeOne(props, cfg, startIso, endIso, t)
          IN /\ now' = t
             /\ props' = r.props
             /\ run' = [kind |-> "syncOne", pc |-> "loop", i |-> 1,
                        startIso |-> startIso, endIso |-> endIso, end |-> r.end,
                        currentStart |-> r.start, iterationCount |-> 0,
                        effectiveEnd |-> 0, issued |-> 0, applied |-> 0,
                        afterOk |-> ReturnedOkOne, prev |-> PrevStatus]
             /\ outcome' = [j \in 1..Len(cfgs) |->
                              IF j = 1 THEN Running(props, cfg, r) ELSE Pending]
  /\ ncalls' = ncalls + 1
  /\ UNCHANGED <<cfgs, sheets>>
  /\ UNCHANGED rvars

CallSyncOne == SyncOneCall(StartIsoValues, EndIsoValues, NowValues)

\* syncAllCalendarsToSheetsGAS(startIso, endIso), up to its first config
SyncAllCall(starts, ends, nows) ==
  /\ Returned
  /\ ncalls < MaxCalls
  /\ \E startIso \in starts, endIso \in ends, t \in nows :
       /\ t >= now
       /\ now' = t
       /\ run' = [kind |-> "syncAll", pc |-> "range", i |-> 1,
                  startIso |-> startIso, endIso |-> endIso, end |-> 0,
                  currentStart |-> 0, iterationCount |-> 0,
                  effectiveEnd |-> 0, issued |-> 0, applied |-> 0, afterOk |-> FALSE,
                  prev |-> PrevStatus]
  /\ outcome' = [j \in 1..Len(cfgs) |-> Pending]
  /\ ncalls' = ncalls + 1
  /\ UNCHANGED <<cfgs, props, sheets>>
  /\ UNCHANGED rvars

CallSyncAll == SyncAllCall(StartIsoValues, EndIsoValues, NowValues)

\* code.gs 279-299: the range of config i of syncAllCalendarsToSheetsGAS
RangeStep ==
  /\ run.pc = "range"
  /\ LET cfg == cfgs[run.i]
         r   == RangeAll(props, cfg, run.startIso, run.endIso, now)
     IN /\ props' = r.props
        /\ run' = [run EXCEPT !.pc = "loop", !.end = r.end, !.currentStart = r.start,
                              !.iterationCount = 0]
        /\ outcome' = [outcome EXCEPT ![run.i] = Running(props, cfg, r)]
  /\ UNCHANGED <<cfgs, sheets, now, ncalls>>
  /\ UNCHANGED rvars

\* the store calls of the window that starts at currentStart
WindowCalls ==
  LET cfg == cfgs[run.i]
      eff == EffectiveEnd(run.currentStart, run.end)
  IN _syncCalendarToSheetGAS(sheets[cfg.sheet],
                             getEvents(CalendarEvents(cfg.calendarId), run.currentStart, eff),
                             run.currentStart, eff, EnsureHeaderDeployed)

\* one window is reconciled (code.gs 251-259, 303-311)
WindowOk ==
  /\ run.pc = "loop"
  /\ LoopContinues(run)
  /\ sheets' = [sheets EXCEPT ![cfgs[run.i].sheet] = ApplyCalls(@, WindowCalls)]
  /\ run' = [run EXCEPT !.pc = "save",
                        !.effectiveEnd = EffectiveEnd(run.currentStart, run.end),
                        !.issued = Len(WindowCalls), !.applied = Len(WindowCalls)]
  /\ UNCHANGED <<cfgs, props, now, outcome, ncalls>>
  /\ UNCHANGED rvars

\* an error that is caught and logged whatever the entry point
OnError_Swallow(kind) == "caught"

\* where an error thrown in the loop goes: syncCalendarToSheetGAS has no
\* try (code.gs 224-273), syncAllCalendarsToSheetsGAS catches it (code.gs 325)
OnError(kind) == IF kind = "syncOne" THEN "threw" ELSE "caught"

\* the source provider or the store throws while the window is reconciled,
\* after the first k store calls: syncCalendarToSheetGAS lets the error go
\* to its caller, syncAllCalendarsToSheetsGAS catches it (code.gs 325)
WindowThrows ==
  /\ run.pc = "loop"
  /\ LoopContinues(run)
  /\ run.iterationCount < MaxFailAt
  /\ \E k \in 0..Len(WindowCalls) :
       /\ k = 0 \/ k < Len(WindowCalls)
       /\ sheets' = [sheets EXCEPT ![cfgs[run.i].sheet] =
                       ApplyCalls(@, SubSeq(WindowCalls, 1, k))]
       /\ run' = [run EXCEPT !.pc = OnError(run.kind),
                             !.issued = Len(WindowCalls), !.applied = k]
  /\ outcome' = [outcome EXCEPT ![run.i].status = "threw"]
  /\ UNCHANGED <<cfgs, props, now, ncalls>>
  /\ UNCHANGED rvars

\* code.gs 262-267, 314-319: the checkpoint of the window, then the next one
SaveCheckpoint ==
  /\ run.pc = "save"
  /\ props' = saveLastSyncTime(props, cfgs[run.i], run.effectiveEnd)
  /\ run' = [run EXCEPT !.pc = "loop", !.currentStart = run.effectiveEnd,
                        !.iterationCount = run.iterationCount + 1]
  /\ outcome' = [outcome EXCEPT ![run.i].lastEnd = SomeIso(run.effectiveEnd)]
  /\ UNCHANGED <<cfgs, sheets, now, ncalls>>
  /\ UNCHANGED rvars

\* where the invocation goes once config i is over
AfterConfig ==
  IF run.kind = "syncAll" /\ run.i < Len(cfgs)
    THEN [run EXCEPT !.pc = "range", !.i = run.i + 1]
    ELSE [run EXCEPT !.pc = "done"]

\* the loop ends (code.gs 270-272, 322-324)
LoopExit ==
  /\ run.pc = "loop"
  /\ ~LoopContinues(run)
  /\ outcome' = [outcome EXCEPT ![run.i].status =
                   IF run.iterationCount >= maxIterations THEN "capped" ELSE "ok"]
  /\ run' = AfterConfig
  /\ UNCHANGED <<cfgs, props, sheets, now, ncalls>>
  /\ UNCHANGED rvars

\* catch (e) { Logger.log(...) } (code.gs 325-330)
Caught ==
  /\ run.pc = "caught"
  /\ run' = AfterConfig
  /\ UNCHANGED <<cfgs, props, sheets, now, outcome, ncalls>>
  /\ UNCHANGED rvars

Next ==
  \/ CallSyncOne
  \/ CallSyncAll
  \/ RangeStep
  \/ WindowOk
  \/ WindowThrows
  \/ SaveCheckpoint
  \/ LoopExit
  \/ Caught

Spec == Init /\ [][Next]_vars

\* ---- the claims about the driver ----
\* the configuration whose loop the invocation is in
ThisCfg == cfgs[run.i]

ThisKey == getCheckpointKey(ThisCfg)

\* a window of the configuration has just thrown
JustThrew == run.pc \in {"threw", "caught"}

\* C5, as stated: after a window throws, the checkpoint of the configuration
\* is the upper bound of the last window that completed in this run, or, if
\* none completed, the value it had before the run.
C5_PriorValueKept ==
  JustThrew =>
    props[ThisKey] = IF outcome[run.i].lastEnd.set
                       THEN NumProp(outcome[run.i].lastEnd.t)
                       ELSE outcome[run.i].read

\* C5, amended: after a window throws, the checkpoint of the configuration is
\* the upper bound of the last window that completed in this run; if none
\* completed it is the value it had before the run, unless the range
\* determination cleared it (start after end), and then none is stored.
C5_NoCheckpointOnThrow ==
  JustThrew =>
    props[ThisKey] = IF outcome[run.i].lastEnd.set
                       THEN NumProp(outcome[run.i].lastEnd.t)
                       ELSE IF outcome[run.i].reset THEN NoProp
                       ELSE outcome[run.i].read

\* a window throws after another one completed and moved the checkpoint
C5_Witness ==
  /\ JustThrew
  /\ outcome[run.i].lastEnd.set
  /\ outcome[run.i].read # NumProp(outcome[run.i].lastEnd.t)
  /\ run.applied < run.issued

\* C6: a syncCalendarToSheetGAS call without endIso that returns normally,
\* made after another such call, leaves a checkpoint that is not smaller than
\* the one it found.
C6_NonDecreasing ==
  (ReturnedOkOne /\ run.afterOk) =>
    getLastSyncTime(props, cfgs[1]) >= getLastSyncTime(outcome[1].before, cfgs[1])

\* the provider and the store are about to be accessed for a window that is
\* not the first of its loop
NextWindowBegins == run.pc = "loop" /\ LoopContinues(run) /\ run.iterationCount >= 1

\* C7: when the provider and the store are about to be accessed for window
\* k+1, every store call of window k has been applied and the checkpoint of
\* window k, its upper bound, which is the start of window k+1, is stored.
C7_WindowCompleteBeforeNext ==
  NextWindowBegins =>
    /\ run.applied = run.issued
    /\ outcome[run.i].lastEnd = SomeIso(run.currentStart)
    /\ props[ThisKey] = NumProp(run.currentStart)

\* window k changed the store and window k+1 is about to begin
C7_Witness == NextWindowBegins /\ run.issued > 0 /\ run.iterationCount = 1

\* the checkpoint that the loop from currentStart to end leaves when no
\* window throws; last is the checkpoint before the loop
RECURSIVE LoopFinal(_, _, _, _)
LoopFinal(currentStart, end, iterationCount, last) ==
  IF currentStart < end /\ iterationCount < maxIterations
    THEN LoopFinal(EffectiveEnd(currentStart, end), end, iterationCount + 1,
                   NumProp(EffectiveEnd(currentStart, end)))
    ELSE last

\* the properties after config i, had none of its windows thrown
PropsHadSucceeded(i) ==
  LET cfg == cfgs[i]
      r   == RangeAll(outcome[i].before, cfg, run.startIso, run.endIso, now)
  IN [r.props EXCEPT ![getCheckpointKey(cfg)] = LoopFinal(r.start, r.end, 0, @)]

\* C8: an error of one config does not leave syncAllCalendarsToSheetsGAS,
\* the configs after it are all synced, and the config after it reads the
\* checkpoint it would have read had the failing config succeeded.
C8_LaterConfigsUnaffected ==
  run.kind = "syncAll" =>
    /\ run.pc # "threw"
    /\ run.pc = "done" => \A j \in DOMAIN cfgs : outcome[j].status \in {"ok", "capped", "threw"}
    /\ \A i \in DOMAIN cfgs :
         (i + 1 \in DOMAIN cfgs /\ outcome[i].status = "threw"
            /\ outcome[i + 1].status # "pending") =>
           outcome[i + 1].read = PropsHadSucceeded(i)[getCheckpointKey(cfgs[i + 1])]

\* C9: in one syncAllCalendarsToSheetsGAS invocation, the checkpoint a config
\* reads is the one stored before the configs ahead of it were synced.
C9_IndependentCheckpoints ==
  run.kind = "syncAll" =>
    \A i, j \in DOMAIN cfgs :
      (i < j /\ outcome[j].status # "pending") =>
        outcome[j].read = outcome[i].before[getCheckpointKey(cfgs[j])]

\* the range of the configuration has just been determined
RangeDetermined == run.pc = "loop" /\ run.iterationCount = 0

\* C10: when the start (startIso, or the checkpoint) is after the end, the
\* checkpoint of the config is cleared, the loop starts at the epoch, and the
\* invocation goes on to its loop without raising an error.
C10_SelfHealingReset ==
  (RangeDetermined /\ outcome[run.i].reset) =>
    /\ props[ThisKey] = NoProp
    /\ run.currentStart = 0
    /\ outcome[run.i].status = "running"

\* a future checkpoint was reset and the invocation returned normally with
\* the range synced from the epoch up to the end
C10_Witness ==
  /\ run.pc = "done"
  /\ outcome[1].reset
  /\ outcome[1].read = NumProp(5 * W)
  /\ outcome[1].status = "ok"
  /\ outcome[1].start = 0
  /\ outcome[1].lastEnd = SomeIso(outcome[1].end)

\* ---- the range start ----
\* the checkpoint the configuration found
FoundCheckpoint == getLastSyncTime(outcome[run.i].before, ThisCfg)

\* C11: the range start is the checkpoint less one window exactly when no
\* startIso was supplied and the checkpoint lies within one window of now; a
\* supplied startIso is the range start, and an older checkpoint is used as
\* it is.  (Ranges that were reset because the start was after the end are
\* left aside.)
C11_RewindRule ==
  (RangeDetermined /\ ~outcome[run.i].reset) =>
    run.currentStart =
      IF run.startIso.set THEN run.startIso.t
      ELSE IF now - FoundCheckpoint <= DEFAULT_SYNC_WINDOW_MS
        THEN FoundCheckpoint - DEFAULT_SYNC_WINDOW_MS
        ELSE FoundCheckpoint

\* ---- the windows at the end of a range ----
\* ranges from the epoch whose end lies around one window, and around two
TailStarts == {SomeIso(0)}

TailEnds ==
  {SomeIso(W + d) : d \in {0 - 1, 0, TAIL_MERGE_WINDOW_MS - 1, TAIL_MERGE_WINDOW_MS,
                           TAIL_MERGE_WINDOW_MS + 1}}
    \cup {SomeIso(2 * W + TAIL_MERGE_WINDOW_MS)}

TailNows == {3 * W + 5}

CallSyncOneTail == SyncOneCall(TailStarts, TailEnds, TailNows)

CallSyncAllTail == SyncAllCall(TailStarts, TailEnds, TailNows)

NextTail ==
  \/ CallSyncOneTail
  \/ CallSyncAllTail
  \/ RangeStep
  \/ WindowOk
  \/ WindowThrows
  \/ SaveCheckpoint
  \/ LoopExit
  \/ Caught

SpecTail == Init /\ [][NextTail]_vars

\* a window has been reconciled and its checkpoint is about to be saved
WindowDone == run.pc = "save"

\* C12: the upper bound of a window is end when chunkEnd < end and
\* end - chunkEnd is strictly smaller than the merge threshold, and
\* min(chunkEnd, end) otherwise.
C12_TailMergeStrict ==
  WindowDone =>
    LET chunkEnd == run.currentStart + DEFAULT_SYNC_WINDOW_MS
    IN run.effectiveEnd =
         IF chunkEnd < run.end /\ run.end - chunkEnd < TAIL_MERGE_WINDOW_MS
           THEN run.end
           ELSE IF chunkEnd < run.end THEN chunkEnd ELSE run.end

\* ---- the iteration cap ----
\* a start 96 windows before the epoch, or none; the clock 30 minutes after
\* the end of the 100th window
CapStarts == {NoIso, SomeIso(0 - 96 * W)}

CapEnds == {NoIso}

CapNows == {4 * W + 30}

CallSyncOneCap == SyncOneCall(CapStarts, CapEnds, CapNows)

CallSyncAllCap == SyncAllCall(CapStarts, CapEnds, CapNows)

NextCap ==
  \/ CallSyncOneCap
  \/ CallSyncAllCap
  \/ RangeStep
  \/ WindowOk
  \/ WindowThrows
  \/ SaveCheckpoint
  \/ LoopExit
  \/ Caught

SpecCap == Init /\ [][NextCap]_vars

\* the loop is about to stop at the cap with the range unfinished
StoppedByCap ==
  run.pc = "loop" /\ run.iterationCount >= maxIterations /\ run.currentStart < run.end

\* the cap stops the loop without an error and with the checkpoint at the
\* upper bound of the last window
CapKeepsProgress ==
  /\ StoppedByCap =>
       /\ props[ThisKey] = NumProp(run.currentStart)
       /\ outcome[run.i].lastEnd = SomeIso(run.currentStart)
  /\ \A j \in DOMAIN outcome : outcome[j].status = "capped" => run.pc # "threw"

\* the range of a config has been determined, without startIso and endIso and
\* without a reset, in the invocation after one that the cap stopped
ResumesAfterCap ==
  /\ RangeDetermined
  /\ run.prev[run.i] = "capped"
  /\ ~run.startIso.set /\ ~run.endIso.set
  /\ ~outcome[run.i].reset

StoredValues ==
  { NoProp, NumProp(W + 7), [k |-> "numtext", n |-> W + 7],
    [k |-> "text", n |-> 0], [k |-> "huge", n |-> 0] }

InitStored ==
  /\ cfgs \in ConfigLists
  /\ props \in [CheckpointKeys -> StoredValues]
  /\ sheets = [id \in SheetIds |-> InitialSheet(id)]
  /\ now = 0
  /\ run = NoRun
  /\ outcome = [j \in 1..Len(cfgs) |-> Pending]
  /\ ncalls = 0
  /\ sheet0 = <<>>
  /\ sheet = <<>>
  /\ args = NoArgs
  /\ before = <<>>
  /\ calls = <<>>
  /\ passes = 0
  /\ mail = NoMail

StoredNows == {3 * W + 5}

CallSyncOneStored == SyncOneCall({NoIso}, {NoIso}, StoredNows)

CallSyncAllStored == SyncAllCall({NoIso}, {NoIso}, StoredNows)

NextStored ==
  \/ CallSyncOneStored
  \/ CallSyncAllStored
  \/ RangeStep
  \/ WindowOk
  \/ WindowThrows
  \/ SaveCheckpoint
  \/ LoopExit
  \/ Caught

SpecStored == InitStored /\ [][NextStored]_vars

\* C14: the checkpoint that syncCalendarToSheetGAS() starts from is the
\* stored timestamp when the whole stored value is a valid timestamp, and the
\* epoch when nothing is stored or the stored value is anything else.
C14_WholeValueOrEpoch ==
  (RangeDetermined /\ run.kind = "syncOne" /\ ~outcome[1].reset) =>
    run.currentStart = IF outcome[1].read.k = "num" THEN outcome[1].read.n ELSE 0

\* C15: an error thrown while syncCalendarToSheetGAS reconciles a window is
\* not caught: the invocation ends with the error at its caller, and no
\* further window is reconciled.
C15_ErrorReachesCaller ==
  run.kind = "syncOne" =>
    /\ run.pc # "caught"
    /\ outcome[1].status = "threw" => run.pc = "threw"

\* the store threw in the middle of the store calls of a window of
\* syncCalendarToSheetGAS
C15_Witness ==
  /\ run.kind = "syncOne"
  /\ run.pc = "threw"
  /\ run.applied > 0
  /\ run.applied < run.issued

\* ---- fullResyncCalendarToSheetGAS ----
\* ClearSheet that deletes nothing
ClearSheet_Keep(sh) == sh

\* code.gs 355-358, 370-373: if (data.length > 1) sheet.deleteRows(2, data.length - 1)
ClearSheet(sh) ==
  IF Len(sh) > 1 THEN ApplyCalls(sh, << DeleteRowsCall(2, Len(sh) - 1) >>) ELSE sh

\* s1 holds the row of an event that is no longer in the calendar and a row
\* without a start; s2 is empty, or holds a row with an unparsable start
ResyncSheets ==
  { [id \in SheetIds |->
       IF id = "s1"
         THEN << expectedHeader,
                 <<Str(<<"e9">>), Str(<<"A">>), Iso(W + 60), Iso(W + 120), Blank, Blank, Blank>>,
                 <<Str(<<"e8">>), Str(<<"A">>), Blank, Blank, Blank, Blank, Blank>> >>
         ELSE s2] :
    s2 \in { <<>>,
             << expectedHeader,
                <<Str(<<"e7">>), Str(<<"A">>), Garbage, Iso(W + 120), Blank, Blank, Blank>> >> } }

InitResync ==
  /\ cfgs \in ConfigLists
  /\ \E v \in InitialProps : props = [key \in CheckpointKeys |-> v]
  /\ sheets \in ResyncSheets
  /\ now = 0
  /\ run = NoRun
  /\ outcome = [j \in 1..Len(cfgs) |-> Pending]
  /\ ncalls = 0
  /\ sheet0 = <<>>
  /\ sheet = <<>>
  /\ args = NoArgs
  /\ before = <<>>
  /\ calls = <<>>
  /\ passes = 0
  /\ mail = NoMail

\* fullResyncCalendarToSheetGAS(configIndex) with a config index, up to the
\* reconciliation (code.gs 343-359); index counts the configs from 1, and an
\* index beyond the list finds no config and does nothing (code.gs 351)
CallFullResyncOne ==
  /\ Returned
  /\ ncalls < MaxCalls
  /\ \E index \in 1..(Len(cfgs) + 1), t \in NowValues :
       /\ t >= now
       /\ now' = t
       /\ IF index \in DOMAIN cfgs
            THEN LET cfg == cfgs[index]
                 IN /\ props' = clearCheckpoint(props, cfg)
                    /\ sheets' = [sheets EXCEPT ![cfg.sheet] = ClearSheet(@)]
                    /\ run' = [kind |-> "fullResyncOne", pc |-> "resync", i |-> index,
                               startIso |-> NoIso, endIso |-> NoIso, end |-> t,
                               currentStart |-> 0, iterationCount |-> 0,
                               effectiveEnd |-> 0, issued |-> 0, applied |-> 0,
                               afterOk |-> FALSE, prev |-> PrevStatus]
                    /\ outcome' = [j \in 1..Len(cfgs) |->
                                     IF j = index
                                       THEN Running(props, cfg,
                                                    [start |-> 0, end |-> t, reset |-> FALSE])
                                       ELSE Pending]
            ELSE /\ run' = [NoRun EXCEPT !.kind = "fullResyncOne", !.pc = "done",
                                         !.prev = PrevStatus]
                 /\ outcome' = [j \in 1..Len(cfgs) |-> Pending]
                 /\ UNCHANGED <<props, sheets>>
  /\ ncalls' = ncalls + 1
  /\ UNCHANGED cfgs
  /\ UNCHANGED rvars

\* the store calls of _syncCalendarToSheetGAS(cfg, start, end) (code.gs 359)
ResyncCalls ==
  _syncCalendarToSheetGAS(sheets[ThisCfg.sheet],
                          getEvents(CalendarEvents(ThisCfg.calendarId), run.currentStart, run.end),
                          run.currentStart, run.end, EnsureHeaderDeployed)

\* code.gs 359: the whole range is reconciled in one pass
ResyncWindowOk ==
  /\ run.pc = "resync"
  /\ sheets' = [sheets EXCEPT ![ThisCfg.sheet] = ApplyCalls(@, ResyncCalls)]
  /\ run' = [run EXCEPT !.pc = "resave", !.effectiveEnd = run.end,
                        !.issued = Len(ResyncCalls), !.applied = Len(ResyncCalls)]
  /\ UNCHANGED <<cfgs, props, now, outcome, ncalls>>
  /\ UNCHANGED rvars

\* the provider or the store throws in that pass, after the first k store
\* calls; nothing catches the error
ResyncWindowThrows ==
  /\ run.pc = "resync"
  /\ \E k \in 0..Len(ResyncCalls) :
       /\ k = 0 \/ k < Len(ResyncCalls)
       /\ sheets' = [sheets EXCEPT ![ThisCfg.sheet] =
                       ApplyCalls(@, SubSeq(ResyncCalls, 1, k))]
       /\ run' = [run EXCEPT !.pc = "threw", !.issued = Len(ResyncCalls), !.applied = k]
  /\ outcome' = [outcome EXCEPT ![run.i].status = "threw"]
  /\ UNCHANGED <<cfgs, props, now, ncalls>>
  /\ UNCHANGED rvars

\* code.gs 360: saveLastSyncTime(cfg, new Date()), the clock read in minutes
ResyncSave ==
  /\ run.pc = "resave"
  /\ props' = saveLastSyncTime(props, ThisCfg, now)
  /\ run' = [run EXCEPT !.pc = "done", !.currentStart = run.effectiveEnd,
                        !.iterationCount = 1]
  /\ outcome' = [outcome EXCEPT ![run.i].status = "ok", ![run.i].lastEnd = SomeIso(now)]
  /\ UNCHANGED <<cfgs, sheets, now, ncalls>>
  /\ UNCHANGED rvars

\* the checkpoints of all configs cleared (code.gs 368)
RECURSIVE ClearAllCheckpoints(_, _)
ClearAllCheckpoints(p, cs) ==
  IF cs = <<>> THEN p ELSE ClearAllCheckpoints(clearCheckpoint(p, Head(cs)), Tail(cs))

\* fullResyncCalendarToSheetGAS() for all configs: the clearing loop, then
\* syncAllCalendarsToSheetsGAS(start.toISOString(), end.toISOString())
\* (code.gs 362-382)
CallFullResyncAll ==
  /\ Returned
  /\ ncalls < MaxCalls
  /\ \E t \in NowValues :
       /\ t >= now
       /\ now' = t
       /\ run' = [kind |-> "syncAll", pc |-> "range", i |-> 1,
                  startIso |-> SomeIso(0), endIso |-> SomeIso(t), end |-> 0,
                  currentStart |-> 0, iterationCount |-> 0,
                  effectiveEnd |-> 0, issued |-> 0, applied |-> 0, afterOk |-> FALSE,
                  prev |-> PrevStatus]
  /\ props' = ClearAllCheckpoints(props, cfgs)
  /\ sheets' = [id \in SheetIds |->
                  IF \E j \in DOMAIN cfgs : cfgs[j].sheet = id
                    THEN ClearSheet(sheets[id]) ELSE sheets[id]]
  /\ outcome' = [j \in 1..Len(cfgs) |-> Pending]
  /\ ncalls' = ncalls + 1
  /\ UNCHANGED cfgs
  /\ UNCHANGED rvars

NextResync ==
  \/ CallFullResyncOne
  \/ ResyncWindowOk
  \/ ResyncWindowThrows
  \/ ResyncSave
  \/ CallFullResyncAll
  \/ RangeStep
  \/ WindowOk
  \/ WindowThrows
  \/ SaveCheckpoint
  \/ LoopExit
  \/ Caught

SpecResync == InitResync /\ [][NextResync]_vars

\* the rows below row 1
Body(sh) == IF Len(sh) > 1 THEN SubSeq(sh, 2, Len(sh)) ELSE <<>>

\* the events of the calendar of config j from the epoch to the end of the resync
EventsInRange(j) == getEvents(CalendarEvents(cfgs[j].calendarId), 0, outcome[j].end)

\* the sheet of config j holds a first row and, below it, exactly one row for
\* each event of the range and no other row
HoldsExactlyTheRange(j) ==
  LET sh == sheets[cfgs[j].sheet]
      ev == EventsInRange(j)
  IN /\ Len(sh) >= 1
     /\ Len(Body(sh)) = Len(ev)
     /\ \A k \in DOMAIN ev :
          Cardinality({i \in DOMAIN Body(sh) : Body(sh)[i] = eventToRowGAS(ev[k])}) = 1

\* the clearing step of a full resync has just been done
JustCleared ==
  \/ run.pc = "resync"
  \/ run.pc = "range" /\ run.i = 1

\* the configs a full resync was asked for
Targets == IF run.kind = "fullResyncOne" THEN {run.i} ELSE DOMAIN cfgs

C17_ResyncInWindows ==
  run.pc \in {"save", "resave"} =>
    run.effectiveEnd - run.currentStart <= DEFAULT_SYNC_WINDOW_MS + TAIL_MERGE_WINDOW_MS

\* ---- the header ----
\* row 1 holds the seven labels in positions 1 to 7
HoldsSchemaLabels(sh) ==
  /\ Len(sh) >= 1
  /\ \A i \in DOMAIN expectedHeader : At(sh[1], i) = expectedHeader[i]

\* C18: after a sync pass, on a store that was empty or not, row 1 holds the
\* labels id, title, start, end, description, location, attendees in
\* positions 1 to 7, and it still does after the next pass.
C18_HeaderLabels == passes >= 1 => HoldsSchemaLabels(sheet)

\* the number of ensureHeader calls on one sheet
MaxEnsures == 2

\* a row widened to n more cells, as getValues returns it when other rows are
\* that wide
Pad(row, n) == row \o [j \in 1..n |-> Blank]

\* what row 1 may be when it is at least as wide as the schema: the header, the four
\* labels that are tested followed by other cells, the header that code.gs
\* writes, blank cells, a data row
FirstRows ==
  { expectedHeader,
    SubSeq(expectedHeader, 1, 4) \o <<Str(<<"notes">>), Blank, Blank>>,
    headerRow,
    [j \in 1..7 |-> Blank],
    StoredRow("e1", <<Iso(0), Iso(1)>>, 0) }

\* a sheet that is four columns wide: the four labels alone, and under them
\* rows of an id, a title and two instants
NarrowSheets ==
  { <<SubSeq(expectedHeader, 1, 4)>> \o b :
      b \in UNION {[1..len -> {<<Str(<<"e1">>), Str(<<"A">>), Iso(0), Iso(1)>>,
                               <<Str(<<"e2">>), Str(<<"A">>), Iso(1), Iso(1)>>}] :
                   len \in 0..MaxRows} }

HeaderSheets ==
  {<<>>}
    \cup NarrowSheets
    \cup UNION {{<<Pad(r, n)>> \o b : r \in FirstRows, b \in Bodies(n)} : n \in {0, MaxForeign}}

InitHeader ==
  /\ sheet0 \in HeaderSheets
  /\ sheet = sheet0
  /\ args = NoArgs
  /\ before = <<>>
  /\ calls = <<>>
  /\ passes = 0
  /\ cfgs = <<>>
  /\ props = <<>>
  /\ sheets = <<>>
  /\ now = 0
  /\ run = <<>>
  /\ outcome = <<>>
  /\ ncalls = 0
  /\ mail = NoMail

\* ensureHeader(sheet) (src/index.js 65-92)
EnsureHeader ==
  /\ passes < MaxEnsures
  /\ args' = [NoArgs EXCEPT !.impl = "ensureHeader"]
  /\ before' = sheet
  /\ calls' = ensureHeader(sheet)
  /\ sheet' = ApplyCalls(sheet, ensureHeader(sheet))
  /\ passes' = passes + 1
  /\ UNCHANGED sheet0
  /\ UNCHANGED dvars

NextHeader == EnsureHeader

SpecHeader == InitHeader /\ [][NextHeader]_vars

\* the first four cells of the row are id, title, start, end
FirstFourAreLabels(row) == \A i \in 1..4 : At(row, i) = expectedHeader[i]

\* ensureHeader has run on a sheet that had rows
EnsuredNonEmpty == passes >= 1 /\ Len(before) >= 1

\* C19: when row 1 of a sheet with rows does not begin with the four labels,
\* ensureHeader leaves one row more, the header in row 1, and every row that
\* was there one position lower with all its cells.
C19_HeaderInsertShiftsRows ==
  (EnsuredNonEmpty /\ ~FirstFourAreLabels(before[1])) =>
    /\ Len(sheet) = Len(before) + 1
    /\ sheet[1] = expectedHeader
    /\ \A i \in DOMAIN before : sheet[i + 1] = before[i]

\* a header was put above a data row that has cells right of the schema and
\* another row under it
C19_Witness ==
  /\ EnsuredNonEmpty
  /\ passes = 1
  /\ Len(before) = 3
  /\ before[1][1] = Str(<<"e1">>)
  /\ Len(before[1]) > 7
  /\ Len(sheet) = 4

\* C20: when the first four cells of row 1 are id, title, start, end,
\* ensureHeader issues no store call and the sheet is as it was.
C20_ValidHeaderNoOp ==
  (EnsuredNonEmpty /\ FirstFourAreLabels(before[1])) =>
    (calls = <<>> /\ sheet = before)

(***************************************************************************)
(* Reconciliation passes over stores as a spreadsheet hands them back:     *)
(* date cells read as Date objects, text cells without the leading quote,  *)
(* rows without an id, three data rows.  A first pass, then a second pass  *)
(* of the same deployment with any desired records and any window.         *)
(***************************************************************************)
MaxBody == 3

EventFull(id, title, start, end, description, location) ==
  [id |-> Str(<<id>>), title |-> Str(title), start |-> start, end |-> end,
   description |-> Str(description), location |-> Str(location), attendees |-> <<>>]

\* the event e1 as the calendar returns it: formula characters in the title,
\* the description and, after a control character, the location
FormulaEvent == EventFull("e1", <<"=", "A">>, 1, 2, <<"-", "d">>, <<"TAB", "@", "l">>)

\* a second instance of the recurring event e1: same getId()
FormulaEventAgain == EventFull("e1", <<"=", "A">>, 1, 2, <<"+", "d">>, <<"TAB", "@", "l">>)

RowEventLists ==
  {e1 \o e2 : e1 \in {<<>>, <<FormulaEvent>>, <<FormulaEventAgain, FormulaEvent>>},
              e2 \in {<<>>, <<EventAt("e2", <<"A">>, 0, 1)>>}}

\* the row of e1 as getValues() returns it after the spreadsheet took it in:
\* the leading quote of a text cell is not part of its value, the start and
\* end cells are dates
AsRead(row) ==
  [i \in 1..Len(row) |->
     IF row[i].k = "iso" THEN DateObj(row[i].t)
     ELSE IF row[i].k = "str" /\ row[i].s # <<>> /\ Head(row[i].s) = "'"
       THEN Str(Tail(row[i].s))
       ELSE row[i]]

PlainRow(id, title, t) ==
  <<id, Str(title), Iso(t), Iso(t + 1), Blank, Blank, Blank>>

RowKinds ==
  { eventToRowGAS(FormulaEvent),
    AsRead(eventToRowGAS(FormulaEvent)),
    PlainRow(Str(<<"e1">>), <<"B">>, 1),
    PlainRow(Str(<<"e2">>), <<"A">>, 0),
    PlainRow(Str(<<"e3">>), <<"A">>, 1),
    PlainRow(Blank, <<"A">>, 1),
    <<>> }

RowSheets ==
  {<<>>} \cup {<<expectedHeader>> \o b : b \in UNION {[1..len -> RowKinds] : len \in 0..MaxBody}}

RowWindows == {<<0, 1>>, <<1, 1>>}

InitRows ==
  /\ sheet0 \in RowSheets
  /\ sheet = sheet0
  /\ args = NoArgs
  /\ before = <<>>
  /\ calls = <<>>
  /\ passes = 0
  /\ cfgs = <<>>
  /\ props = <<>>
  /\ sheets = <<>>
  /\ now = 0
  /\ run = <<>>
  /\ outcome = <<>>
  /\ ncalls = 0
  /\ mail = NoMail

RowsGAS ==
  /\ passes = 0
  /\ \E ev \in RowEventLists, w \in RowWindows, eh \in BOOLEAN :
       PassGAS([impl |-> "gas", events |-> ev, start |-> w[1], end |-> w[2], eh |-> eh])

RowsLib ==
  /\ passes = 0
  /\ \E ev \in RowEventLists, w \in RowWindows :
       PassLib([impl |-> "lib", events |-> ev, start |-> w[1], end |-> w[2], eh |-> FALSE])

\* a later pass of the same script project
RowsNextPass ==
  /\ passes = 1
  /\ \E ev \in RowEventLists, w \in RowWindows :
       LET a == [impl |-> args.impl, events |-> ev, start |-> w[1], end |-> w[2], eh |-> args.eh]
       IN IF args.impl = "gas" THEN PassGAS(a) ELSE PassLib(a)

NextRows == RowsGAS \/ RowsLib \/ RowsNextPass

SpecRows == InitRows /\ [][NextRows]_vars

(***************************************************************************)
(* Claims about reconciliation passes (SpecRows)                           *)
(***************************************************************************)
\* the rows the last pass projected from the fetched events
Desired ==
  [i \in 1..Len(args.events) |->
     IF args.impl = "gas" THEN eventToRowGAS(args.events[i]) ELSE eventToRow(args.events[i])]

\* the index the last pass built over the data rows it read
ExistingMap == rowsToMap(Tail(Data))

\* the comparison of the last pass found the desired row and the stored row
\* different
Mismatch(row, stored) ==
  IF args.impl = "gas"
    THEN \E i \in 1..Len(row) : ~StrictEq(At(stored, i), row[i])
    ELSE ~rowsEqual(row, stored)

\* the rows the last pass added below the data it read
Added ==
  LET F[k \in 0..Len(calls)] ==
        IF k = 0 THEN <<>>
        ELSE IF calls[k].op = "appendRow" THEN F[k - 1] \o calls[k].values
        ELSE IF calls[k].op = "setValues" /\ calls[k].row > Len(Data) THEN F[k - 1] \o calls[k].values
        ELSE F[k - 1]
  IN F[Len(calls)]

\* C21: when the id of a desired record has a row in the index and the
\* comparison finds the schema values different, the pass overwrites that row
\* at its position with one write of the desired row and adds no row for the
\* id; the number of rows changes by the rows added for new ids and the rows
\* deleted only.
C21_UpdateInPlace ==
  passes >= 1 =>
    /\ \A id \in DOMAIN ExistingMap \cap Range(MapKeys(Desired)) :
         LET ex  == ExistingMap[id]
             row == MapGet(Desired, id)
         IN Mismatch(row, ex.values) =>
              /\ Cardinality({k \in 1..Len(calls) :
                    calls[k].op = "setValues" /\ calls[k].row = ex.rowIndex}) = 1
              /\ SetValuesCall(ex.rowIndex, <<row>>) \in Range(calls)
              /\ \A k \in 1..Len(Added) : Added[k][1] # id
              /\ ex.rowIndex \notin Deleted
              /\ \A j \in 1..Len(row) : sheet[FinalPos(ex.rowIndex)][j] = row[j]
    /\ \A k \in 1..Len(Added) : Added[k][1] \notin DOMAIN ExistingMap
    /\ Len(sheet) = Len(Data) + Len(Added) - Cardinality(Deleted)

\* a pass that only updates: a stale row of e1 among three rows is rewritten
\* and the sheet keeps its number of rows
C21_Witness ==
  /\ passes = 1
  /\ Updated # {}
  /\ Added = <<>>
  /\ Deleted = {}
  /\ Len(before) = 1 + MaxBody
  /\ Len(sheet) = Len(before)
  /\ sheet # before

Stale(r) ==
  /\ Truthy(At(Data[r], 1))
  /\ At(Data[r], 1) \notin DesiredIds
  /\ ValidInstant(At(Data[r], 3))
  /\ ValidInstant(At(Data[r], 4))
  /\ DateTime(At(Data[r], 3)) >= args.start
  /\ DateTime(At(Data[r], 3)) <= args.end

\* the row is deleted: a deleteRow names it, and the rows below move up
Removed(r) ==
  /\ r \in Deleted
  /\ \A q \in 2..Len(Data) :
       (q \notin Deleted /\ q \notin Updated) =>
         (FinalPos(q) <= Len(sheet) /\ sheet[FinalPos(q)] = Data[q])

\* C23 as stated: every row with valid start and end whose id is absent from
\* the desired set and whose start lies within the window, bounds included,
\* is deleted by the pass.
C23_StaleRowDeleted ==
  passes >= 1 => \A r \in 2..Len(Data) : Stale(r) => Removed(r)

\* C23 amended: the same, for a row below which no row carries the same id.
C23_LastStaleRowDeleted ==
  passes >= 1 =>
    \A r \in 2..Len(Data) :
      (Stale(r) /\ \A q \in (r + 1)..Len(Data) : At(Data[q], 1) # At(Data[r], 1)) => Removed(r)

\* one pass deletes a row whose start equals window.start and a row whose
\* start equals window.end
C23_Witness ==
  /\ passes = 1
  /\ args.start < args.end
  /\ \E r, q \in Deleted :
       /\ Stale(r) /\ DateTime(At(Data[r], 3)) = args.start
       /\ Stale(q) /\ DateTime(At(Data[q], 3)) = args.end

\* the row positions of the deleteRow calls of the last pass, in call order
DeleteOrder ==
  LET F[k \in 0..Len(calls)] ==
        IF k = 0 THEN <<>>
        ELSE IF calls[k].op = "deleteRow" THEN Append(F[k - 1], calls[k].row)
        ELSE F[k - 1]
  IN F[Len(calls)]

\* the data rows the pass selects for deletion: the row the index holds for an
\* id that is absent from the desired set, with a start inside the window
\* (and, in src/index.js, an end cell)
Selected ==
  {r \in 2..Len(Data) :
     /\ Truthy(At(Data[r], 1))
     /\ ExistingMap[At(Data[r], 1)].rowIndex = r
     /\ At(Data[r], 1) \notin DesiredIds
     /\ Truthy(At(Data[r], 3))
     /\ DateValid(At(Data[r], 3))
     /\ DateTime(At(Data[r], 3)) >= args.start
     /\ DateTime(At(Data[r], 3)) <= args.end
     /\ (args.impl = "lib" => Truthy(At(Data[r], 4)))}

\* the sheet after the pass, the added rows left out
Kept == SubSeq(sheet, 1, Len(sheet) - Len(Added))

\* the data the pass read, the selected rows left out
Survivors ==
  LET F[r \in 0..Len(Data)] ==
        IF r = 0 THEN <<>>
        ELSE IF r \in Selected THEN F[r - 1]
        ELSE Append(F[r - 1], Data[r])
  IN F[Len(Data)]

\* C24: the deletions of a pass are applied from the highest row position to
\* the lowest; exactly the rows selected for deletion are removed, and every
\* other row keeps its content (an updated row its new schema cells).
C24_DeletesHighestFirst ==
  passes >= 1 =>
    /\ \A i, j \in 1..Len(DeleteOrder) : i < j => DeleteOrder[i] > DeleteOrder[j]
    /\ Deleted = Selected
    /\ Len(Kept) = Len(Survivors)
    /\ \A p \in 1..Len(Kept) :
         \/ Kept[p] = Survivors[p]
         \/ /\ \E r \in Updated : FinalPos(r) = p
            /\ \A j \in (SchemaWidth + 1)..Len(Survivors[p]) : At(Kept[p], j) = Survivors[p][j]

\* a pass that deletes the first and the third of three data rows and keeps
\* the second
C24_Witness ==
  /\ passes = 1
  /\ Len(Data) = 1 + MaxBody
  /\ Deleted = {2, 4}
  /\ sheet = <<Data[1], Data[3]>>
  /\ Data[2] # Data[4]

(***************************************************************************)
(* RowComparator and ValueSanitizer on their own: rowsEqual(a, b) and      *)
(* sanitizeValue(val) applied to arguments drawn from bounded sets.  args  *)
(* holds the function and its arguments, calls the value it returned.      *)
(***************************************************************************)
MaxDesiredLen == 2

MaxStoredLen == 3

MaxTextLen == 3

\* cells of a desired row: plain text, sanitized text, an ISO string, and
\* undefined (getId() or getTitle() of an event object that has none)
DesiredCells == {Str(<<"A">>), Str(<<"'", "=", "A">>), Iso(1), Undef}

\* cells of a stored row: text, a date, an empty cell
StoredCells == {Str(<<"A">>), Str(<<"=", "A">>), DateObj(1), Blank}

DesiredRowsPure == UNION {[1..n -> DesiredCells] : n \in 0..MaxDesiredLen}

StoredRowsPure == UNION {[1..n -> StoredCells] : n \in 0..MaxStoredLen}

Chars == ControlChars \cup FormulaChars \cup {"a", "'"}

Texts == UNION {[1..n -> Chars] : n \in 0..MaxTextLen}

InitPure ==
  /\ args \in [fn : {"rowsEqual"}, a : DesiredRowsPure, b : StoredRowsPure, val : {Blank}]
              \cup [fn : {"sanitizeValue"}, a : {<<>>}, b : {<<>>}, val : {Str(s) : s \in Texts}]
  /\ sheet0 = <<>>
  /\ sheet = <<>>
  /\ before = <<>>
  /\ calls = <<>>
  /\ passes = 0
  /\ cfgs = <<>>
  /\ props = <<>>
  /\ sheets = <<>>
  /\ now = 0
  /\ run = <<>>
  /\ outcome = <<>>
  /\ ncalls = 0
  /\ mail = NoMail

CallRowsEqual ==
  /\ passes = 0
  /\ args.fn = "rowsEqual"
  /\ calls' = <<rowsEqual(args.a, args.b)>>
  /\ passes' = 1
  /\ UNCHANGED <<sheet0, sheet, args, before>>
  /\ UNCHANGED dvars

CallSanitizeValue ==
  /\ passes = 0
  /\ args.fn = "sanitizeValue"
  /\ calls' = <<sanitizeValue(args.val)>>
  /\ passes' = 1
  /\ UNCHANGED <<sheet0, sheet, args, before>>
  /\ UNCHANGED dvars

NextPure == CallRowsEqual \/ CallSanitizeValue

SpecPure == InitPure /\ [][NextPure]_vars

ReturnedBy(fn) == passes = 1 /\ args.fn = fn

SameButAsRead(row, stored) ==
  /\ Len(stored) >= Len(row)
  /\ \A i \in 1..Len(row) :
       \/ stored[i] = row[i]
       \/ /\ i \in {3, 4}
          /\ row[i].k = "iso"
          /\ stored[i] = DateObj(row[i].t)
       \/ /\ i \in {2, 5, 6}
          /\ row[i].k = "str"
          /\ row[i].s # <<>>
          /\ Head(row[i].s) = "'"
          /\ stored[i] = Str(Tail(row[i].s))

\* C26: a stored row that differs from the desired row only in date-valued
\* start/end cells for the same instants, or in text cells without the
\* leading quote, is treated as unchanged: the pass issues no update for it.
C26_SameInstantNoUpdate ==
  passes >= 1 =>
    \A id \in DOMAIN ExistingMap \cap Range(MapKeys(Desired)) :
      SameButAsRead(MapGet(Desired, id), ExistingMap[id].values)
        => ExistingMap[id].rowIndex \notin Updated

\* C27: when the stored row has fewer cells than the desired row, rowsEqual
\* returns false, even when the desired value at a missing position is
\* undefined.
C27_ShorterStoredUnequal ==
  (ReturnedBy("rowsEqual") /\ Len(args.b) < Len(args.a)) => calls[1] = FALSE

\* s without its leading characters of the range 0x00-0x20
RECURSIVE StripLeading(_)
StripLeading(s) ==
  IF s # <<>> /\ Head(s) \in ControlChars THEN StripLeading(Tail(s)) ELSE s

\* s, after any leading characters of the range 0x00-0x20, begins with one of
\* = + - @
BeginsLikeFormula(s) ==
  StripLeading(s) # <<>> /\ Head(StripLeading(s)) \in {"=", "+", "-", "@"}

Written ==
  UNION {Range(c.values) : c \in {x \in Range(calls) : x.op \in {"appendRow", "setValues"}}}

\* the positions of title, description and location in a row
TextColumns == {2, 5, 6}

WithoutId(r) == ~Truthy(At(Data[r], 1))

\* C30: a data row that is null or empty or whose first cell is falsy gets no
\* index entry, and the pass neither overwrites nor deletes it, whatever the
\* desired set and the window: the row is in the sheet, unchanged, afterwards.
C30_RowsWithoutIdUntouched ==
  passes >= 1 =>
    \A r \in 2..Len(Data) :
      WithoutId(r) =>
        /\ \A id \in DOMAIN ExistingMap : ExistingMap[id].rowIndex # r
        /\ r \notin Updated
        /\ r \notin Deleted
        /\ FinalPos(r) <= Len(sheet)
        /\ sheet[FinalPos(r)] = Data[r]

\* a pass that updates a row and deletes a row around a row whose first cell
\* is empty and whose start lies in the window
C30_Witness ==
  /\ passes = 1
  /\ Updated # {}
  /\ Deleted # {}
  /\ \E r \in 2..Len(Data) :
       /\ WithoutId(r)
       /\ Data[r] # <<>>
       /\ InWindow(At(Data[r], 3), args.start, args.end)
       /\ \E d \in Deleted : d < r

(***************************************************************************)
(* Claims about the ranges and the windows of the driver                   *)
(***************************************************************************)
\* C31: on the first run for a config (no stored checkpoint, no startIso) the
\* first window starts one year before now, not at the epoch.
C31_FirstRunPastYear ==
  (RangeDetermined /\ ~run.startIso.set /\ outcome[run.i].read = NoProp) =>
    run.currentStart = now - DEFAULT_SYNC_WINDOW_MS

\* the properties when the invocation in progress was made
PropsAtCall == outcome[1].before

\* the instant up to which config j was reconciled when the invocation was
\* made: what its checkpoint said then
CoveredAtCall(j) == getLastSyncTime(PropsAtCall, cfgs[j])

\* C35: when the checkpoint of a config is T, every instant between the epoch
\* and T lies in a window that was reconciled for the config.  The windows of
\* an invocation run without a gap from the range start to the checkpoint
\* they leave, so, in the first invocation, the range of a config that saved
\* a checkpoint starts no later than the instant its checkpoint stood at when
\* the invocation was made.
C35_NoGapBelowCheckpoint ==
  ncalls = 1 =>
    \A j \in DOMAIN cfgs :
      outcome[j].lastEnd.set => outcome[j].start <= CoveredAtCall(j)

\* ---- whole ranges: empty, a few windows, exactly maxIterations windows ----
WholeNow == 4 * W + 30

\* the start from which maxIterations whole windows end at WholeNow
ExactStart == WholeNow - maxIterations * DEFAULT_SYNC_WINDOW_MS

WholeStarts == {NoIso, SomeIso(2 * W + 3), SomeIso(ExactStart), SomeIso(ExactStart - W)}

WholeEnds == {NoIso, SomeIso(2 * W + 3)}

WholeNows == {WholeNow}

InitWhole ==
  /\ cfgs = <<Cfg("calA", "s1"), Cfg("calB", "s2")>>
  /\ \E v \in {NoProp, NumProp(W + 7)} : props = [key \in CheckpointKeys |-> v]
  /\ sheets = [id \in SheetIds |-> InitialSheet(id)]
  /\ now = 0
  /\ run = NoRun
  /\ outcome = [j \in 1..Len(cfgs) |-> Pending]
  /\ ncalls = 0
  /\ sheet0 = <<>>
  /\ sheet = <<>>
  /\ args = NoArgs
  /\ before = <<>>
  /\ calls = <<>>
  /\ passes = 0
  /\ mail = NoMail

\* one invocation in a behaviour
CallSyncOneWhole == ncalls = 0 /\ SyncOneCall(WholeStarts, WholeEnds, WholeNows)

CallSyncAllWhole == ncalls = 0 /\ SyncAllCall(WholeStarts, WholeEnds, WholeNows)

\* a statement of the invocation in progress is executed
Step ==
  \/ RangeStep
  \/ WindowOk
  \/ WindowThrows
  \/ SaveCheckpoint
  \/ LoopExit
  \/ Caught

NextWhole == CallSyncOneWhole \/ CallSyncAllWhole \/ Step

\* the script runtime goes on executing an invocation it has begun
SpecWhole == InitWhole /\ [][NextWhole]_vars /\ WF_vars(Step)

\* every window reconciled so far begins where the one before it ended (the
\* first at the range start), ends later than it begins, and ends no later
\* than the range end
WindowsContiguous ==
  WindowDone =>
    /\ run.currentStart = (IF run.iterationCount = 0 THEN outcome[run.i].start
                           ELSE outcome[run.i].lastEnd.t)
    /\ run.iterationCount > 0 => outcome[run.i].lastEnd.set
    /\ run.currentStart < run.effectiveEnd
    /\ run.effectiveEnd <= run.end

\* the loop of config j ended without an error and without reaching the
\* iteration limit
EndedOk(j) == outcome[j].status = "ok"

\* C36 as stated: in a run that ends without error and without hitting the
\* iteration cap, the windows are contiguous, their union is exactly
\* [start, end], and the final checkpoint equals end.
C36_WindowsCoverRange ==
  /\ WindowsContiguous
  /\ \A j \in DOMAIN cfgs :
       EndedOk(j) => props[getCheckpointKey(cfgs[j])] = NumProp(outcome[j].end)

\* C36 amended: the same for a range that is not empty (start < end); the
\* last window then ends at end and the checkpoint is end.  A run over an
\* empty range reconciles no window and leaves the checkpoint as it was.
C36_NonEmptyRangeCovered ==
  /\ WindowsContiguous
  /\ \A j \in DOMAIN cfgs :
       EndedOk(j) =>
         IF outcome[j].start < outcome[j].end
           THEN /\ outcome[j].lastEnd = SomeIso(outcome[j].end)
                /\ props[getCheckpointKey(cfgs[j])] = NumProp(outcome[j].end)
           ELSE /\ ~outcome[j].lastEnd.set
                /\ props[getCheckpointKey(cfgs[j])] = outcome[j].before[getCheckpointKey(cfgs[j])]

\* a run of several windows over [start, end] ended without error
C36_Witness ==
  /\ run.pc = "done"
  /\ EndedOk(1)
  /\ outcome[1].end - outcome[1].start > 2 * DEFAULT_SYNC_WINDOW_MS
  /\ outcome[1].lastEnd = SomeIso(outcome[1].end)

\* an invocation has begun and has not returned
InProgress == ~Returned

\* a window ends later than it begins, so the next one begins later, and no
\* loop reconciles more than maxIterations windows
BoundedProgress ==
  /\ WindowDone => run.effectiveEnd > run.currentStart
  /\ run.pc \in {"loop", "save"} => run.iterationCount <= maxIterations
  /\ WindowDone => run.iterationCount < maxIterations

\* C37: every driver run terminates: each iteration strictly increases
\* currentStart, at most 100 windows are reconciled per config per invocation,
\* and an invocation that has begun returns.
C37_RunTerminates == []BoundedProgress /\ (InProgress ~> Returned)

\* an invocation returned after its loop reconciled maxIterations windows
C37_Witness ==
  /\ run.pc = "done"
  /\ run.iterationCount = maxIterations
  /\ outcome[run.i].lastEnd.set

\* the loop of config j ended and the iteration-limit warning was logged
WarningLogged(j) == outcome[j].status = "capped"

\* C38: the iteration-cap warning is logged only when the loop stopped with
\* currentStart still earlier than end; a loop that reaches end in exactly
\* maxIterations windows logs no warning.
C38_WarningOnlyWhenCut ==
  \A j \in DOMAIN cfgs :
    WarningLogged(j) => (outcome[j].lastEnd.set /\ outcome[j].lastEnd.t < outcome[j].end)

(***************************************************************************)
(* gmail-to-drive-by-labels: storeEmailsAndAttachments archives the        *)
(* threads that carry a trigger label into a document and a Drive folder   *)
(* and relabels them; rebuildAllDocs clears the documents and moves the    *)
(* archived threads back to the trigger label.                             *)
(***************************************************************************)

\* the configuration array of Config.gs
PROCESS_CONFIG ==
  << [triggerLabel |-> "label", processedLabel |-> "label-archived",
      docId |-> "doc1", folderId |-> "folder1"],
     [triggerLabel |-> "nested-label/label", processedLabel |-> "nested-label/label-archived",
      docId |-> "doc2", folderId |-> "folder2"] >>

BATCH_SIZE == 100

\* invocations of the two entry points in one behaviour
MaxRuns == 5

\* the threads of the mailbox in the order getThreads() lists them, the
\* messages of each in the order getMessages() lists them, and the trigger
\* label the user gave each thread
ThreadOrder == <<"t1", "t2", "t3">>

ThreadMessages ==
  [t1 |-> << [id |-> "m1", date |-> 1,
              attachments |-> << [name |-> "a.pdf", content |-> "X"] >>] >>,
   t2 |-> << [id |-> "m3", date |-> 3,
              attachments |-> << [name |-> "a.pdf", content |-> "Y"] >>],
             [id |-> "m2", date |-> 2,
              attachments |-> << [name |-> "b.pdf", content |-> "X"] >>] >>,
   t3 |-> << [id |-> "m4", date |-> 4, attachments |-> <<>>] >>]

ThreadTrigger ==
  [t1 |-> "label", t2 |-> "label", t3 |-> "nested-label/label"]

Threads == DOMAIN ThreadMessages

LabelNames ==
  {PROCESS_CONFIG[i].triggerLabel : i \in DOMAIN PROCESS_CONFIG}
    \cup {PROCESS_CONFIG[i].processedLabel : i \in DOMAIN PROCESS_CONFIG}

DocIds == {PROCESS_CONFIG[i].docId : i \in DOMAIN PROCESS_CONFIG}

FolderIds == {PROCESS_CONFIG[i].folderId : i \in DOMAIN PROCESS_CONFIG}

\* triggerLabelName.replace(/[^a-zA-Z0-9]/g, '_') on the configured names
Sanitized(name) ==
  CASE name = "label" -> "label"
    [] name = "nested-label/label" -> "nested_label_label"

stateKey(config) == "rebuild_state_" \o Sanitized(config.triggerLabel)

StateKeys == {stateKey(PROCESS_CONFIG[i]) : i \in DOMAIN PROCESS_CONFIG}

\* a user property that is not set
NoState == [phase |-> "none"]

\* the time limit of rebuildDoc is not reached
NoLimit == BATCH_SIZE + 1

\* history of the rebuild of one config: the rebuildDoc calls since it began,
\* the calls that cleared the document, whether the trigger label existed and
\* the document could be opened at the first call, and whether a call has
\* returned true
NoRebuild ==
  [calls |-> 0, clearedOn |-> <<>>, hadTrigger |-> FALSE, openOk |-> FALSE, done |-> FALSE]

\* history of the last processLabelGroup of one config: the threads that
\* carried the trigger label when it began, whether the document and folder
\* were opened, and whether the processed label was found or created
NoGroup == [began |-> {}, opened |-> FALSE, labelled |-> FALSE]

\* label.getThreads()
getThreads(m, label) == SelectSeq(ThreadOrder, LAMBDA t : label \in m.threads[t])

\* messages.sort by date, oldest first
RECURSIVE sortByDate(_)
sortByDate(messages) ==
  IF messages = <<>> THEN <<>>
  ELSE LET k == CHOOSE k \in DOMAIN messages :
                  \A j \in DOMAIN messages :
                    \/ messages[k].date < messages[j].date
                    \/ (messages[k].date = messages[j].date /\ k <= j)
           rest == [j \in 1..(Len(messages) - 1) |->
                      IF j < k THEN messages[j] ELSE messages[j + 1]]
       IN <<messages[k]>> \o sortByDate(rest)

\* folder.getFilesByName(fileName)
getFilesByName(files, fileName) ==
  SelectSeq(files, LAMBDA f : f.name = fileName /\ f.tag = 0)

\* whether a file of the same name has the same size and the same MD5 hash
isDuplicate(files, att) ==
  \E k \in DOMAIN getFilesByName(files, att.name) :
    getFilesByName(files, att.name)[k].content = att.content

\* one attachment: skipped as a duplicate, saved under its name, or saved
\* under its name with the time tag when the name is taken
saveAttachment(files, att, timeTag) ==
  IF isDuplicate(files, att) THEN files
  ELSE IF getFilesByName(files, att.name) # <<>>
    THEN Append(files, [name |-> att.name, tag |-> timeTag, content |-> att.content])
    ELSE Append(files, [name |-> att.name, tag |-> 0, content |-> att.content])

RECURSIVE saveAttachments(_, _, _)
saveAttachments(files, attachments, timeTag) ==
  IF attachments = <<>> THEN files
  ELSE saveAttachments(saveAttachment(files, Head(attachments), timeTag),
                       Tail(attachments), timeTag)

\* one message: its text is inserted at the top of the document and its
\* attachments are saved
processMessage(m, config, message, timeTag) ==
  [m EXCEPT !.docs[config.docId] = <<message.id>> \o @,
            !.folders[config.folderId] = saveAttachments(@, message.attachments, timeTag)]

RECURSIVE processMessages(_, _, _, _)
processMessages(m, config, messages, timeTag) ==
  IF messages = <<>> THEN m
  ELSE processMessages(processMessage(m, config, Head(messages), timeTag),
                       config, Tail(messages), timeTag)

cleanupLabels_KeepTrigger(labelsOfThread, config, processedLabel) ==
  labelsOfThread \cup (IF processedLabel THEN {config.processedLabel} ELSE {})

\* step 5 of the thread loop: the trigger label comes off, the processed
\* label goes on when there is one
cleanupLabels(labelsOfThread, config, processedLabel) ==
  (labelsOfThread \ {config.triggerLabel})
    \cup (IF processedLabel THEN {config.processedLabel} ELSE {})

RECURSIVE processThreads(_, _, _, _, _)
processThreads(m, config, threads, processedLabel, timeTag) ==
  IF threads = <<>> THEN m
  ELSE LET thread == Head(threads)
           written == processMessages(m, config, sortByDate(ThreadMessages[thread]), timeTag)
           relabelled == [written EXCEPT !.threads[thread] =
                            cleanupLabels(@, config, processedLabel)]
       IN processThreads(relabelled, config, Tail(threads), processedLabel, timeTag)

processLabelGroup(m, i, env) ==
  LET config == PROCESS_CONFIG[i]
      found == config.processedLabel \in m.labels
      created == ~found /\ ~env.createLabelThrows
      processedLabel == found \/ created
      m1 == [m EXCEPT !.labels = IF created THEN @ \cup {config.processedLabel} ELSE @]
      threads == getThreads(m1, config.triggerLabel)
      opened == config.docId \notin env.unopenable
      m2 == [m1 EXCEPT !.groups[i] =
               [began |-> IF config.triggerLabel \in m1.labels
                            THEN {threads[k] : k \in DOMAIN threads} ELSE {},
                opened |-> opened, labelled |-> processedLabel]]
  IN IF config.triggerLabel \notin m1.labels THEN m2
     ELSE IF threads = <<>> THEN m2
     ELSE IF ~opened THEN m2
     ELSE processThreads(m2, config, threads, processedLabel, env.timeTag)

RECURSIVE storeFrom(_, _, _)
storeFrom(m, i, env) ==
  IF i > Len(PROCESS_CONFIG) THEN m
  ELSE storeFrom(processLabelGroup(m, i, env), i + 1, env)

storeEmailsAndAttachments(m, env) == storeFrom(m, 1, env)

rebuildState_Fresh(properties, key) == [phase |-> "clear_doc"]

\* properties.getProperty(stateKey), parsed, or the initial state
rebuildState(properties, key) ==
  IF properties[key] # NoState THEN properties[key] ELSE [phase |-> "clear_doc"]

RECURSIVE moveThreads(_, _, _, _)
moveThreads(m, config, threads, n) ==
  IF n = 0 THEN m
  ELSE moveThreads([m EXCEPT !.threads[Head(threads)] =
                      (@ \cup {config.triggerLabel}) \ {config.processedLabel}],
                   config, Tail(threads), n - 1)

\* the rebuild history of config i when a rebuildDoc call begins
Called(m, i, env) ==
  LET config == PROCESS_CONFIG[i]
      r == m.rebuilds[i]
  IN [m EXCEPT !.rebuilds[i] =
        IF r.calls = 0 \/ r.done
          THEN [calls |-> 1, clearedOn |-> <<>>,
                hadTrigger |-> config.triggerLabel \in m.labels,
                openOk |-> config.docId \notin env.unopenable,
                done |-> FALSE]
          ELSE [r EXCEPT !.calls = @ + 1]]

\* what a rebuildDoc call returns, with the state it leaves
Return(m, i, completed) ==
  [mail |-> [m EXCEPT !.rebuilds[i].done = completed], completed |-> completed]

deleteProperty(m, key) == [m EXCEPT !.properties[key] = NoState]

setProperty(m, key, state) == [m EXCEPT !.properties[key] = state]

rebuildDoc(m0, i, env) ==
  LET config == PROCESS_CONFIG[i]
      key == stateKey(config)
      m == Called(m0, i, env)
      state == rebuildState(m.properties, key)
      cleared == [setProperty(m, key, [phase |-> "move_emails"])
                    EXCEPT !.docs[config.docId] = <<>>,
                           !.rebuilds[i].clearedOn = Append(@, m.rebuilds[i].calls)]
      m1 == IF state.phase = "clear_doc" THEN cleared ELSE m
      allThreads == getThreads(m1, config.processedLabel)
      totalThreads == Len(allThreads)
      threadsToProcess == IF BATCH_SIZE < totalThreads THEN BATCH_SIZE ELSE totalThreads
      inTime == IF env.limit[i] < threadsToProcess THEN env.limit[i] ELSE threadsToProcess
      moved == moveThreads(m1, config, allThreads, inTime)
      moving == [phase |-> "move_emails"]
  IN IF config.triggerLabel \notin m.labels THEN Return(m, i, TRUE)
     ELSE IF state.phase = "clear_doc" /\ config.docId \in env.unopenable
       THEN Return(deleteProperty(m, key), i, TRUE)
     ELSE IF config.processedLabel \notin m1.labels
       THEN Return(deleteProperty(m1, key), i, TRUE)
     ELSE IF totalThreads = 0 THEN Return(deleteProperty(m1, key), i, TRUE)
     ELSE IF env.limit[i] < threadsToProcess
       THEN Return(setProperty(moved, key, moving), i, FALSE)
     ELSE IF threadsToProcess >= totalThreads
       THEN Return(deleteProperty(moved, key), i, TRUE)
     ELSE Return(setProperty(moved, key, moving), i, FALSE)

RECURSIVE rebuildFrom(_, _, _)
rebuildFrom(m, i, env) ==
  IF i > Len(PROCESS_CONFIG) THEN m
  ELSE LET r == rebuildDoc(m, i, env)
       IN IF ~r.completed THEN r.mail ELSE rebuildFrom(r.mail, i + 1, env)

rebuildAllDocs(m, env) == rebuildFrom(m, 1, env)

\* what one invocation meets: whether GmailApp.createLabel throws, the
\* documents that cannot be opened, for each config the number of threads
\* rebuildDoc moves before its time limit is reached, and the time of day
Limits == {0, 1, NoLimit}

Envs(timeTag) ==
  [createLabelThrows : BOOLEAN,
   unopenable : {{}, {PROCESS_CONFIG[1].docId}},
   limit : [DOMAIN PROCESS_CONFIG -> Limits],
   timeTag : {timeTag}]

\* the mailbox before the first invocation: the threads carry the trigger
\* labels that exist, nothing is archived, no rebuild is under way
InitMail ==
  /\ \E labels \in SUBSET LabelNames :
       /\ PROCESS_CONFIG[1].triggerLabel \in labels
       /\ mail = [labels |-> labels,
                  threads |-> [t \in Threads |-> {ThreadTrigger[t]} \cap labels],
                  docs |-> [d \in DocIds |-> <<>>],
                  folders |-> [f \in FolderIds |-> <<>>],
                  properties |-> [k \in StateKeys |-> NoState],
                  rebuilds |-> [i \in DOMAIN PROCESS_CONFIG |-> NoRebuild],
                  groups |-> [i \in DOMAIN PROCESS_CONFIG |-> NoGroup],
                  op |-> "none",
                  runs |-> 0]
  /\ args = <<>>
  /\ sheet0 = <<>>
  /\ sheet = <<>>
  /\ before = <<>>
  /\ calls = <<>>
  /\ passes = 0
  /\ cfgs = <<>>
  /\ props = <<>>
  /\ sheets = <<>>
  /\ now = 0
  /\ run = <<>>
  /\ outcome = <<>>
  /\ ncalls = 0

CallStoreEmailsAndAttachments ==
  /\ mail.runs < MaxRuns
  /\ \E env \in Envs(mail.runs + 1) :
       mail' = [storeEmailsAndAttachments(mail, env)
                  EXCEPT !.op = "store", !.runs = @ + 1]
  /\ UNCHANGED <<sheet0, sheet, args, before, calls, passes>>
  /\ UNCHANGED <<cfgs, props, sheets, now, run, outcome, ncalls>>

CallRebuildAllDocs ==
  /\ mail.runs < MaxRuns
  /\ \E env \in Envs(mail.runs + 1) :
       mail' = [rebuildAllDocs(mail, env)
                  EXCEPT !.op = "rebuild", !.runs = @ + 1]
  /\ UNCHANGED <<sheet0, sheet, args, before, calls, passes>>
  /\ UNCHANGED <<cfgs, props, sheets, now, run, outcome, ncalls>>

NextMail == CallStoreEmailsAndAttachments \/ CallRebuildAllDocs

SpecMail == InitMail /\ [][NextMail]_vars

\* the last invocation was storeEmailsAndAttachments
Stored == mail.op = "store"

\* the threads that carried the trigger label of config i when the last
\* processLabelGroup began are archived: trigger label off, processed label on
Relabelled(i) ==
  \A t \in mail.groups[i].began :
    /\ PROCESS_CONFIG[i].triggerLabel \notin mail.threads[t]
    /\ PROCESS_CONFIG[i].processedLabel \in mail.threads[t]

\* C32 as stated: after processLabelGroup finishes for a config, every thread
\* that carried the trigger label when it began no longer carries it and
\* carries the processed label.
C32_ThreadsRelabelled ==
  Stored => \A i \in DOMAIN PROCESS_CONFIG : Relabelled(i)

\* C32 amended: the same when the document and the folder were opened and the
\* processed label existed or was created.  When they cannot be opened the
\* threads keep the trigger label; when the processed label is missing and
\* cannot be created the threads lose the trigger label and gain none.
C32_ThreadsRelabelledWhenProcessed ==
  Stored =>
    \A i \in DOMAIN PROCESS_CONFIG :
      LET g == mail.groups[i]
          config == PROCESS_CONFIG[i]
      IN /\ (g.opened /\ g.labelled) => Relabelled(i)
         /\ ~g.opened =>
              \A t \in g.began : config.triggerLabel \in mail.threads[t]
         /\ (g.opened /\ ~g.labelled) =>
              \A t \in g.began :
                /\ config.triggerLabel \notin mail.threads[t]
                /\ config.processedLabel \notin mail.threads[t]

\* processLabelGroup archived two threads of the first config
C32_Witness ==
  /\ Stored
  /\ mail.groups[1].opened
  /\ mail.groups[1].labelled
  /\ Cardinality(mail.groups[1].began) = 2
  /\ Relabelled(1)

\* how many times e-mail id is written in document d
Occurrences(d, id) ==
  Cardinality({k \in DOMAIN mail.docs[d] : mail.docs[d][k] = id})

\* C33: across a rebuild, however many invocations of rebuildAllDocs it takes
\* and however they interleave with storeEmailsAndAttachments, no e-mail is
\* written to the cleared document more than once.
C33_ReprocessedOnce ==
  \A i \in DOMAIN PROCESS_CONFIG :
    \A t \in Threads :
      \A k \in DOMAIN ThreadMessages[t] :
        Occurrences(PROCESS_CONFIG[i].docId, ThreadMessages[t][k].id) <= 1

\* C34: an attachment byte-identical to a file already in the folder is never
\* saved as a new file, even when that file has a different name: no folder
\* holds two files of the same content.
C34_NoIdenticalFiles ==
  \A f \in FolderIds :
    \A j, k \in DOMAIN mail.folders[f] :
      mail.folders[f][j].content = mail.folders[f][k].content => j = k

\* rebuildDoc has been called for config i
Rebuilding(i) == mail.rebuilds[i].calls >= 1

\* C39 as stated: within one rebuild of a config, from the first rebuildDoc
\* call until a call returns true, the document is cleared exactly once, on
\* the first call.
C39_ClearedExactlyOnce ==
  \A i \in DOMAIN PROCESS_CONFIG :
    Rebuilding(i) => mail.rebuilds[i].clearedOn = <<1>>

\* C39 amended: the document is cleared at most once, and only by the first
\* call; it is cleared by the first call exactly when the trigger label exists
\* and the document can be opened.  Otherwise the first call returns true and
\* the rebuild clears nothing.
C39_ClearedOnFirstCallOnly ==
  \A i \in DOMAIN PROCESS_CONFIG :
    LET r == mail.rebuilds[i]
    IN Rebuilding(i) =>
         /\ r.clearedOn = IF r.hadTrigger /\ r.openOk THEN <<1>> ELSE <<>>
         /\ (r.clearedOn = <<>> => r.done /\ r.calls = 1)

\* a rebuild that took three calls has returned true
C39_Witness ==
  /\ mail.rebuilds[1].calls = 3
  /\ mail.rebuilds[1].done
  /\ mail.rebuilds[1].clearedOn = <<1>>

====
